---- MODULE Spec2Model ----
(***************************************************************************)
(* The tub datastore of donkeycar/parts/datastore_v2.py: Seekable,         *)
(* Catalog, CatalogMetadata, Manifest and ManifestIterator.                *)
(*                                                                         *)
(* Files are sequences of lines.  A line of manifest.json or of a catalog  *)
(* manifest is the JSON value it holds; a line of a catalog is the JSON    *)
(* text of one record.  One Manifest object and at most one                *)
(* ManifestIterator over it are alive at a time (single process, single    *)
(* writer).  A Seekable on a file of its own is held byte by byte, with    *)
(* the position of its file object.                                        *)
(***************************************************************************)
EXTENDS Integers, Sequences, FiniteSets, TLC

VARIABLES
    exists,     \* whether the file manifest.json exists
    mfile,      \* manifest.json: the sequence of its lines
    cats,       \* catalog number -> [data: lines of catalog_<n>.catalog,
                \*                    manifest: lines of catalog_<n>.catalog_manifest]
    m,          \* the Manifest object
    it,         \* the ManifestIterator object (it.alive = FALSE: none)
    op,         \* the last call made and what it answered (history)
    written,    \* the records write_record has stored, in order (history)
    handles,    \* the files the process holds open through Catalog objects
    sk,         \* a Seekable object on a file of its own, with the bytes of
                \* the file and the position of the file object
    skop        \* the last call made on sk and what it answered (history)

vars == <<exists, mfile, cats, m, it, op, written, handles, sk, skop>>

----------------------------------------------------------------------------
(* Bounds of the model *)

\* write_record is not called once current_index has reached this value
MaxIndex == 4
\* _add_catalog is not called once this many catalogs exist
MaxCatalogs == 3
\* close() does not append to sessions.all_full_ids beyond this length
MaxSessionLog == 2
\* the max_len argument of the call that creates the datastore, and the
\* largest max_len argument of a later open
MaxLenArg == 2
\* indexes passed to delete_records / restore_records are in 0..MaxDelIndex
MaxDelIndex == 2

\* a call on the Seekable sk is made only if it leaves at most this many
\* bytes in the file
MaxFileLen == 8

\* the same for the calls made with a character of two bytes
MaxUtf8FileLen == 6

\* line numbers passed to the Seekable sk are 0..MaxLineArg
MaxLineArg == 4

\* the same for a Seekable that is opened read-only as well
MaxReadOnlyFileLen == 5
MaxReadOnlyLineArg == 2

----------------------------------------------------------------------------
(* Python values *)

Min(a, b) == IF a < b THEN a ELSE b

Range(s) == {s[i] : i \in DOMAIN s}

\* sorted(list(S)) for a set of ints
RECURSIVE Sorted(_)
Sorted(S) ==
    IF S = {} THEN <<>>
    ELSE LET lo == CHOOSE x \in S : \A y \in S : x <= y
         IN  <<lo>> \o Sorted(S \ {lo})

\* The records a caller passes to write_record: one-key dicts.  The key is a
\* str or an int, the value a float n/10 or a non-finite float.
RecStr == [key |-> [t |-> "str", s |-> "angle"], fin |-> TRUE,  n |-> 1]
RecInt == [key |-> [t |-> "int", s |-> "1"],     fin |-> TRUE,  n |-> 2]
RecNaN == [key |-> [t |-> "str", s |-> "angle"], fin |-> FALSE, n |-> 0]
Records == {RecStr, RecInt, RecNaN}
NoRecord == [key |-> [t |-> "none", s |-> ""], fin |-> FALSE, n |-> 0]

\* json.dumps(record, allow_nan=False, sort_keys=True) raises ValueError on
\* a non-finite float
JsonDumpsRaises(rec) == ~rec.fin

\* json.dumps writes every key as a JSON string: an int key 1 becomes "1".
\* The text of the line is {"<k>": 0.<v>}
JsonDumps(rec) == [k |-> rec.key.s, v |-> rec.n]

\* json.loads of a record line: every key of the dict is a str
JsonLoads(text) == [key |-> [t |-> "str", s |-> text.k], fin |-> TRUE, n |-> text.v]

\* A line that json.dumps did not write holds the characters k and has
\* v = -1: a line cut short, and a line with no character but its newline
GarbageText == [k |-> "{", v |-> -1]
BlankText == [k |-> "", v |-> -1]
MalformedTexts == {GarbageText, BlankText}

\* json.loads raises on a line that is no JSON text
JsonLoadsRaises(text) == text.v < 0

\* number of characters of the line {"<k>": 0.<v>}, or of the line k
TextLen(text) == IF text.v < 0 THEN Len(text.k) ELSE Len(text.k) + 9

----------------------------------------------------------------------------
(* Seekable on a file held as a sequence of lines *)

\* Seekable.writeline: the file is opened 'a+', the line goes to its end
WriteLine(lines, contents) == Append(lines, contents)

\* Seekable.truncate_until_end(line_number): the slice [:line_number] of the
\* index, the file cut at the end of what is left
TruncateUntilEnd(lines, line_number) ==
    IF line_number >= 0
    THEN SubSeq(lines, 1, Min(line_number, Len(lines)))
    ELSE SubSeq(lines, 1, Len(lines) + line_number)

\* Seekable._offset_until(line_number - 1) as a count of lines: the offset is
\* 0 when line_number - 2 is no index of cumulative_lengths
LinesBefore(lines, line_number) ==
    IF 0 <= line_number - 2 /\ line_number - 2 < Len(lines)
    THEN line_number - 1
    ELSE 0

\* Seekable.read_from(line_number): the lines read from the start of line
\* line_number on (no line of these files is empty)
ReadFrom(lines, line_number) ==
    SubSeq(lines, LinesBefore(lines, line_number) + 1, Len(lines))

\* Seekable.update_line(line_number, contents)
RECURSIVE WriteLines(_, _)
WriteLines(lines, more) ==
    IF more = <<>> THEN lines
    ELSE WriteLines(WriteLine(lines, Head(more)), Tail(more))

\* A faulty update_line: the lines behind the updated one are not written back
UpdateLineDropping(lines, line_number, contents) ==
    WriteLine(TruncateUntilEnd(lines, line_number - 1), contents)

UpdateLine(lines, line_number, contents) ==
    LET old == ReadFrom(lines, line_number)
        cut == TruncateUntilEnd(lines, line_number - 1)
        new == WriteLine(cut, contents)
    IN  IF Len(old) > 1 THEN WriteLines(new, Tail(old)) ELSE new

\* Seekable._read_contents: the line lengths found by scanning the file,
\* each with its newline
ScanLineLengths(data) == [i \in 1..Len(data) |-> TextLen(data[i]) + 1]

----------------------------------------------------------------------------
(* Seekable on a file held as a sequence of bytes.  A str is a sequence of
   characters; the file is opened with encoding='utf-8' and newline='\n'.
   The Seekable s is [file, pos, method, line_lengths, cumulative_lengths,
   total_length]: file is the bytes on disk and pos the position of
   self.file, a count of bytes.  With method 'r' self.file is the mmap of
   the file (os.name is not 'nt'), which reads bytes. *)

NEWLINE == "\n"

\* the character U+00E9, which UTF-8 writes as the two bytes C3 A9
EAcute == "U+00E9"

NulByte == "00"

\* str.encode('utf-8') of one character
Utf8(c) == IF c = EAcute THEN <<"C3", "A9">> ELSE <<c>>

\* what file.write(line) adds to the file
RECURSIVE Encode(_)
Encode(chars) ==
    IF chars = <<>> THEN <<>> ELSE Utf8(Head(chars)) \o Encode(Tail(chars))

\* The decoder of the text file on the bytes from the read position to the
\* end of the file (one chunk): raised when a byte starts no character or a
\* C3 is followed by another byte than A9, pending when the bytes end after
\* a C3
RECURSIVE Decode(_)
Decode(bytes) ==
    IF bytes = <<>>
    THEN [raised |-> FALSE, pending |-> FALSE, chars |-> <<>>]
    ELSE IF Head(bytes) = "A9"
    THEN [raised |-> TRUE, pending |-> FALSE, chars |-> <<>>]
    ELSE IF Head(bytes) = "C3"
    THEN IF Len(bytes) = 1
         THEN [raised |-> FALSE, pending |-> TRUE, chars |-> <<>>]
         ELSE IF bytes[2] # "A9"
         THEN [raised |-> TRUE, pending |-> FALSE, chars |-> <<>>]
         ELSE LET r == Decode(SubSeq(bytes, 3, Len(bytes)))
              IN  [r EXCEPT !.chars = <<EAcute>> \o @]
    ELSE LET r == Decode(Tail(bytes))
         IN  [r EXCEPT !.chars = <<Head(bytes)>> \o @]

\* the decoded characters have a newline among them
HasNewline(chars) == \E i \in 1..Len(chars) : chars[i] = NEWLINE

\* the characters up to and with the first newline, or all of them
RECURSIVE FirstLine(_)
FirstLine(chars) ==
    IF chars = <<>> THEN <<>>
    ELSE IF Head(chars) = NEWLINE THEN <<NEWLINE>>
    ELSE <<Head(chars)>> \o FirstLine(Tail(chars))

\* self.file.readline(): the characters up to and with the next newline, or
\* up to the end of the file; UnicodeDecodeError when the chunk does not
\* decode, or when the end of the file is reached inside a character.  The
\* position is kept as it was when the read raises: every call of Seekable
\* seeks or writes before it reads again.
TextReadline(s) ==
    LET d == Decode(SubSeq(s.file, s.pos + 1, Len(s.file)))
    IN  IF d.raised \/ (~HasNewline(d.chars) /\ d.pending)
        THEN [s |-> s, raised |-> TRUE, contents |-> <<>>]
        ELSE LET line == FirstLine(d.chars)
             IN  [s |-> [s EXCEPT !.pos = @ + Len(Encode(line))],
                  raised |-> FALSE, contents |-> line]

\* mmap.readline(): the bytes up to and with the next newline, or up to the
\* end of the file
MmapReadline(s) ==
    LET line == FirstLine(SubSeq(s.file, s.pos + 1, Len(s.file)))
    IN  [s |-> [s EXCEPT !.pos = @ + Len(line)],
         raised |-> FALSE, contents |-> line]

\* self.file.readline(): a str of the text file, the bytes of the mmap
FileReadline(s) ==
    IF s.method = "r" THEN MmapReadline(s) ELSE TextReadline(s)

\* contents.decode(encoding='utf-8') of the bytes the mmap returned
BytesDecode(r) ==
    LET d == Decode(r.contents)
    IN  IF d.raised \/ d.pending
        THEN [r EXCEPT !.raised = TRUE, !.contents = <<>>]
        ELSE [r EXCEPT !.contents = d.chars]

\* contents.rstrip('\r\n')
RECURSIVE RStrip(_)
RStrip(chars) ==
    IF chars # <<>> /\ chars[Len(chars)] = NEWLINE
    THEN RStrip(SubSeq(chars, 1, Len(chars) - 1))
    ELSE chars

\* Seekable.readline
Seekable_readline(s) ==
    LET r == IF s.method = "r" THEN BytesDecode(MmapReadline(s))
             ELSE TextReadline(s)
    IN  [r EXCEPT !.contents = RStrip(@)]

\* the entries of cumulative_lengths for a list of line lengths
RECURSIVE Cumulative(_)
Cumulative(lengths) ==
    IF lengths = <<>> THEN <<>>
    ELSE LET before == Cumulative(SubSeq(lengths, 1, Len(lengths) - 1))
         IN  Append(before,
                    (IF before = <<>> THEN 0 ELSE before[Len(before)])
                        + lengths[Len(lengths)])

\* Seekable.seek_end_of_file
Seekable_seek_end_of_file(s) == [s EXCEPT !.pos = s.total_length]

\* Seekable._read_contents: the index made by reading the file line by line
RECURSIVE ReadContentsLoop(_)
ReadContentsLoop(s) ==
    LET r == FileReadline(s)
    IN  IF r.raised THEN [s |-> r.s, raised |-> TRUE]
        ELSE IF Len(r.contents) > 0
        THEN ReadContentsLoop(
                 [r.s EXCEPT
                     !.line_lengths = Append(@, Len(r.contents)),
                     !.total_length = @ + Len(r.contents),
                     !.cumulative_lengths =
                         Append(@, s.total_length + Len(r.contents))])
        ELSE [s |-> Seekable_seek_end_of_file(r.s), raised |-> FALSE]

Seekable_read_contents(s) ==
    ReadContentsLoop([s EXCEPT !.line_lengths = <<>>,
                               !.cumulative_lengths = <<>>,
                               !.total_length = 0,
                               !.pos = 0])

\* Seekable.__init__(file, read_only, line_lengths): 'a+' puts the position
\* at the end of the file; 'r' makes the mmap, position 0, and raises on a
\* file that is not there (FileNotFoundError) or holds nothing (ValueError
\* of mmap); raised as well when _read_contents raised.  A file that is not
\* there is the empty sequence.
Seekable_init(file, read_only, line_lengths) ==
    LET opened == [file |-> file,
                   pos |-> IF read_only THEN 0 ELSE Len(file),
                   method |-> IF read_only THEN "r" ELSE "a+",
                   line_lengths |-> <<>>,
                   cumulative_lengths |-> <<>>, total_length |-> 0]
        sums   == Cumulative(line_lengths)
    IN  IF read_only /\ file = <<>>
        THEN [s |-> opened, raised |-> TRUE]
        ELSE IF Len(line_lengths) <= 0
        THEN Seekable_read_contents(opened)
        ELSE [s |-> [opened EXCEPT !.line_lengths = line_lengths,
                                   !.cumulative_lengths = sums,
                                   !.total_length = sums[Len(sums)]],
              raised |-> FALSE]

\* A faulty writeline: the index is extended before the method is looked at
Seekable_writeline_indexing(s, contents) ==
    LET line   == IF contents # <<>> /\ contents[Len(contents)] = NEWLINE
                  THEN contents ELSE Append(contents, NEWLINE)
        offset == Len(line)
        file   == s.file \o Encode(line)
    IN  IF contents = <<>> THEN [s |-> s, raised |-> TRUE]
        ELSE [s |-> [s EXCEPT
                       !.total_length = @ + offset,
                       !.line_lengths = Append(@, offset),
                       !.cumulative_lengths = Append(@, s.total_length + offset),
                       !.file = IF s.method = "r" THEN @ ELSE file,
                       !.pos = IF s.method = "r" THEN @ ELSE Len(file)],
              raised |-> s.method = "r"]

\* Seekable.writeline: RuntimeError when the method is 'r', before anything
\* is looked at; contents[-1] raises IndexError on the empty str; the file
\* is opened 'a+', so the line goes to the end of the file wherever the
\* position is
Seekable_writeline(s, contents) ==
    IF s.method = "r" THEN [s |-> s, raised |-> TRUE]
    ELSE IF contents = <<>> THEN [s |-> s, raised |-> TRUE]
    ELSE LET has_newline == contents[Len(contents)] = NEWLINE
             line   == IF has_newline THEN contents
                       ELSE Append(contents, NEWLINE)
             offset == Len(line)
             file   == s.file \o Encode(line)
         IN  [s |-> [s EXCEPT
                       !.total_length = @ + offset,
                       !.line_lengths = Append(@, offset),
                       !.cumulative_lengths = Append(@, s.total_length + offset),
                       !.file = file,
                       !.pos = Len(file)],
              raised |-> FALSE]

\* Seekable._offset_until
Seekable_offset_until(s, line_index) ==
    LET end_index == line_index - 1
    IN  IF 0 <= end_index /\ end_index < Len(s.cumulative_lengths)
        THEN s.cumulative_lengths[end_index + 1]
        ELSE 0

\* Seekable._line_start_offset
Seekable_line_start_offset(s, line_number) ==
    Seekable_offset_until(s, line_number - 1)

\* Seekable.seek_line_start
Seekable_seek_line_start(s, line_number) ==
    [s EXCEPT !.pos = Seekable_line_start_offset(s, line_number)]

\* file.truncate() at the position: the file cut there, or filled with zero
\* bytes up to it
FileTruncate(file, pos) ==
    [i \in 1..pos |-> IF i <= Len(file) THEN file[i] ELSE NulByte]

\* A faulty truncate_until_end: total_length is left as it was
Seekable_truncate_keeping_total(s, line_number) ==
    LET lengths == TruncateUntilEnd(s.line_lengths, line_number)
        sums    == TruncateUntilEnd(s.cumulative_lengths, line_number)
        total   == IF Len(sums) > 0 THEN sums[Len(sums)] ELSE 0
    IN  [s |-> [s EXCEPT !.line_lengths = lengths,
                         !.cumulative_lengths = sums,
                         !.pos = total,
                         !.file = FileTruncate(@, total)],
         raised |-> s.method = "r"]

\* Seekable.truncate_until_end: the mmap has no truncate (AttributeError),
\* which is found after the index is cut and the position moved
Seekable_truncate_until_end(s, line_number) ==
    LET lengths == TruncateUntilEnd(s.line_lengths, line_number)
        sums    == TruncateUntilEnd(s.cumulative_lengths, line_number)
        total   == IF Len(sums) > 0 THEN sums[Len(sums)] ELSE 0
    IN  [s |-> [s EXCEPT !.line_lengths = lengths,
                         !.cumulative_lengths = sums,
                         !.total_length = total,
                         !.pos = total,
                         !.file = IF s.method = "r" THEN @
                                  ELSE FileTruncate(@, total)],
         raised |-> s.method = "r"]

\* Seekable.read_from: the loop ends at the first readline that returns ''
RECURSIVE ReadFromLoop(_, _)
ReadFromLoop(s, lines) ==
    LET r == Seekable_readline(s)
    IN  IF r.raised THEN [s |-> r.s, raised |-> TRUE, lines |-> lines]
        ELSE IF Len(r.contents) > 0
        THEN ReadFromLoop(r.s, Append(lines, r.contents))
        ELSE [s |-> r.s, raised |-> FALSE, lines |-> lines]

\* Seekable.read_from: the position is put back unless a readline raised
Seekable_read_from(s, line_number) ==
    LET current_offset == s.pos
        r == ReadFromLoop(Seekable_seek_line_start(s, line_number), <<>>)
    IN  IF r.raised THEN r
        ELSE [r EXCEPT !.s.pos = current_offset]

RECURSIVE Seekable_writelines(_, _)
Seekable_writelines(s, lines) ==
    IF lines = <<>> THEN s
    ELSE Seekable_writelines(Seekable_writeline(s, Head(lines)).s, Tail(lines))

\* Seekable.update_line
Seekable_update_line(s, line_number, contents) ==
    LET r   == Seekable_read_from(s, line_number)
        cut == Seekable_truncate_until_end(r.s, line_number - 1)
        new == Seekable_writeline(cut.s, contents)
    IN  IF r.raised THEN [s |-> r.s, raised |-> TRUE]
        ELSE IF cut.raised THEN cut
        ELSE IF new.raised THEN new
        ELSE [s |-> IF Len(r.lines) > 1
                    THEN Seekable_writelines(new.s, Tail(r.lines))
                    ELSE new.s,
              raised |-> FALSE]

----------------------------------------------------------------------------
(* CatalogMetadata and Catalog *)

\* The catalog file named f'catalog_{n}.catalog' is cats[n + 1]
CatalogExists(cc, n) == n + 1 <= Len(cc)

\* CatalogMetadata.__init__ creating the manifest: contents and _update()
NewCatalogManifest(n, start_index) ==
    [path |-> n, created_at |-> "time", start_index |-> start_index,
     line_lengths |-> <<>>]

\* CatalogMetadata._update: truncate_until_end(0), then writeline
CatalogMetadataUpdate(lines, contents) ==
    WriteLine(TruncateUntilEnd(lines, 0), contents)

\* A faulty Catalog.__init__: the catalog file opened 'w+', which empties it
CatalogOpenTruncating(cc, n, start_index) ==
    IF CatalogExists(cc, n)
    THEN [cc EXCEPT ![n + 1].data = <<>>]
    ELSE Append(cc, [data |-> <<>>,
                     manifest |-> <<[path |-> n, created_at |-> "time",
                                     start_index |-> start_index,
                                     line_lengths |-> <<>>]>>])

\* A faulty Catalog.__init__: the start_index of the call is stored in a
\* catalog manifest that holds a line already
CatalogOpenRestamping(cc, n, start_index) ==
    IF CatalogExists(cc, n)
    THEN IF Len(cc[n + 1].manifest) > 0
         THEN [cc EXCEPT ![n + 1].manifest =
                  CatalogMetadataUpdate(
                      @, [@[1] EXCEPT !.start_index = start_index])]
         ELSE [cc EXCEPT ![n + 1].manifest =
                  CatalogMetadataUpdate(@, NewCatalogManifest(n, start_index))]
    ELSE Append(cc, [data |-> <<>>,
                     manifest |-> CatalogMetadataUpdate(
                         <<>>, NewCatalogManifest(n, start_index))])

\* Catalog.__init__(path, start_index): both files are opened 'a+'.  A
\* catalog manifest that holds a line is loaded and start_index is not used;
\* otherwise the manifest is written with start_index and no line lengths.
CatalogOpen(cc, n, start_index) ==
    IF CatalogExists(cc, n)
    THEN IF Len(cc[n + 1].manifest) > 0
         THEN cc
         ELSE [cc EXCEPT ![n + 1].manifest =
                  CatalogMetadataUpdate(@, NewCatalogManifest(n, start_index))]
    ELSE Append(cc, [data |-> <<>>,
                     manifest |-> CatalogMetadataUpdate(
                         <<>>, NewCatalogManifest(n, start_index))])

\* Catalog.__init__(path, read_only=True): whether it raises.  Both files are
\* opened 'r' and mapped: FileNotFoundError when the catalog manifest is not
\* there, ValueError of mmap when it or the catalog holds nothing.  Nothing
\* is written.
CatalogReadOnlyRaises(cc, n) ==
    \/ ~CatalogExists(cc, n)
    \/ Len(cc[n + 1].manifest) = 0
    \/ Len(cc[n + 1].data) = 0

\* The two files a Catalog object holds open, CatalogMetadata.seekeable and
\* Catalog.seekable; owner is the place the object was made at
CatalogHandles(owner, n) ==
    {[owner |-> owner, file |-> "catalog_manifest", n |-> n],
     [owner |-> owner, file |-> "catalog", n |-> n]}

\* Catalog(path, start_index=start_index): the object made and kept
OpenCatalog(w, owner, n, start_index) ==
    [w EXCEPT !.cats = CatalogOpen(@, n, start_index),
              !.handles = @ \cup CatalogHandles(owner, n)]

\* Catalog.close: manifest.close(), then seekable.close()
CloseCatalog(w, owner, n) ==
    [w EXCEPT !.handles = @ \ CatalogHandles(owner, n)]

\* Seekable.__init__(line_lengths=manifest.line_lengths()): the file is
\* scanned only when the stored list is empty
SeekableLineLengths(cat) ==
    LET stored == cat.manifest[1].line_lengths
    IN  IF Len(stored) <= 0 THEN ScanLineLengths(cat.data) ELSE stored

\* A faulty Catalog.write_record: update_line_lengths is not called
CatalogWriteRecordNoUpdate(cat, record, idx) ==
    LET text == JsonDumps(record)
        line == [k |-> text.k, v |-> text.v, idx |-> idx]
    IN  [data |-> WriteLine(cat.data, line), manifest |-> cat.manifest]

\* Catalog.write_record on an open catalog, json.dumps having succeeded:
\* writeline, then update_line_lengths.  idx is not part of the text: it
\* records the value of Manifest.current_index the line was written under.
CatalogWriteRecord(cat, record, idx) ==
    LET text    == JsonDumps(record)
        line    == [k |-> text.k, v |-> text.v, idx |-> idx]
        lengths == Append(SeekableLineLengths(cat), TextLen(text) + 1)
    IN  [data     |-> WriteLine(cat.data, line),
         manifest |-> CatalogMetadataUpdate(
                          cat.manifest,
                          [cat.manifest[1] EXCEPT !.line_lengths = lengths])]

----------------------------------------------------------------------------
(* Manifest *)

\* The inputs and types a caller passes to Manifest(): none, those the
\* datastore was created with, other inputs, other types, types alone
NoList == <<>>
SchemaArgs ==
    {[inputs |-> NoList,        types |-> NoList],
     [inputs |-> <<"angle">>,   types |-> <<"float">>],
     [inputs |-> <<"speed">>,   types |-> <<"float">>],
     [inputs |-> <<"angle">>,   types |-> <<"int">>],
     [inputs |-> NoList,        types |-> <<"float">>]}

NoSessions ==
    [has |-> FALSE, last_id |-> 0, last_full_id |-> "", all_full_ids |-> <<>>]

\* Manifest.create_new_session_id; the date of the full id is left out
FullId(new_id) == ToString(new_id)

\* A faulty create_new_session_id: last_id + 1 with last_id 0 when no
\* session is stored
CreateNewSessionIdFromOne(w) ==
    LET sessions == w.m.manifest_metadata.sessions
        new_id   == sessions.last_id + 1
    IN  [id |-> new_id, full_id |-> FullId(new_id)]

CreateNewSessionId(w) ==
    LET sessions == w.m.manifest_metadata.sessions
        new_id   == IF sessions.has THEN sessions.last_id + 1 ELSE 0
    IN  [id |-> new_id, full_id |-> FullId(new_id)]

\* A faulty line 5: len(self) stored as current_index
CatalogMetadataLineLen(mo) ==
    [paths           |-> mo.catalog_paths,
     current_index   |-> mo.current_index - Cardinality(mo.deleted_indexes),
     max_len         |-> mo.max_len,
     deleted_indexes |-> Sorted(mo.deleted_indexes)]

\* Manifest._update_catalog_metadata(update): line 5 of manifest.json
CatalogMetadataLine(mo) ==
    [paths           |-> mo.catalog_paths,
     current_index   |-> mo.current_index,
     max_len         |-> mo.max_len,
     deleted_indexes |-> Sorted(mo.deleted_indexes)]

\* the Seekable is opened 'a+', which creates manifest.json when there is
\* none
UpdateCatalogMetadata(w, update) ==
    [w EXCEPT !.exists = TRUE,
              !.mfile =
        WriteLine(IF update THEN TruncateUntilEnd(@, 4) ELSE @,
                  CatalogMetadataLine(w.m))]

\* Manifest._write_contents: five lines, then the catalog metadata appended
WriteContents(w) ==
    LET l0 == TruncateUntilEnd(w.mfile, 0)
        l1 == WriteLine(l0, [list |-> w.m.inputs])
        l2 == WriteLine(l1, [list |-> w.m.types])
        l3 == WriteLine(l2, [dict |-> w.m.metadata])
        l4 == WriteLine(l3, w.m.manifest_metadata)
        l5 == WriteLine(l4, [dict |-> {}])
    IN  UpdateCatalogMetadata([w EXCEPT !.exists = TRUE, !.mfile = l5], FALSE)

\* A faulty _add_catalog: the number in the name taken from current_index
AddCatalogByIndex(w) ==
    LET number == w.m.current_index \div w.m.max_len
        w1 == [w EXCEPT !.cats = CatalogOpen(@, number, w.m.current_index),
                        !.m.catalog_paths = Append(@, number)]
    IN  UpdateCatalogMetadata(w1, TRUE)

\* Manifest._add_catalog: tmp_cat is made and closed
AddCatalog(w) ==
    LET current_length == Len(w.m.catalog_paths)
        tmp_cat == OpenCatalog(w, "Manifest._add_catalog", current_length,
                               w.m.current_index)
        closed  == CloseCatalog(tmp_cat, "Manifest._add_catalog", current_length)
        w1 == [closed EXCEPT !.m.catalog_paths = Append(@, current_length)]
    IN  UpdateCatalogMetadata(w1, TRUE)

\* Manifest.write_record: whether a new catalog is started first
NewCatalog(mo) == mo.current_index > 0 /\ (mo.current_index % mo.max_len) = 0

\* Manifest.write_record: catalog_paths[-1], the catalog written to
CurrentCatalogName(mo) == mo.catalog_paths[Len(mo.catalog_paths)]

\* Manifest.write_record up to the call of Catalog.write_record: the catalog
\* added when one is due, and the last catalog opened
WriteRecordOpen(w) ==
    LET w1   == IF NewCatalog(w.m) THEN AddCatalog(w) ELSE w
        name == CurrentCatalogName(w1.m)
    IN  OpenCatalog(w1, "Manifest.write_record", name, w1.m.current_index)

\* A faulty write_record: cat.close() made after cat.write_record and not in
\* a finally clause
WriteRecordNoFinally(w, record) ==
    LET w1   == WriteRecordOpen(w)
        name == CurrentCatalogName(w1.m)
        done == CloseCatalog(w1, "Manifest.write_record", name)
        w2   == [done EXCEPT
                   !.cats[name + 1] =
                       CatalogWriteRecord(@, record, w.m.current_index),
                   !.m.current_index = @ + 1]
        w3   == UpdateCatalogMetadata(w2, TRUE)
    IN  IF JsonDumpsRaises(record)
        THEN [w |-> w1, raised |-> TRUE]
        ELSE [w |-> [w3 EXCEPT !.m.updated_session = TRUE], raised |-> FALSE]

\* Manifest.write_record(record); raised tells whether json.dumps raised.
\* cat.close() is in the finally clause of cat.write_record.
WriteRecord(w, record) ==
    LET w1   == WriteRecordOpen(w)
        name == CurrentCatalogName(w1.m)
        done == CloseCatalog(w1, "Manifest.write_record", name)
        w2   == [done EXCEPT
                   !.cats[name + 1] =
                       CatalogWriteRecord(@, record, w.m.current_index),
                   !.m.current_index = @ + 1]
        w3   == UpdateCatalogMetadata(w2, TRUE)
    IN  IF JsonDumpsRaises(record)
        THEN [w |-> done, raised |-> TRUE]
        ELSE [w |-> [w3 EXCEPT !.m.updated_session = TRUE], raised |-> FALSE]

\* A faulty delete_records: line 5 written without the truncation before it
DeleteRecordsAppending(w, record_indexes) ==
    UpdateCatalogMetadata(
        [w EXCEPT !.m.deleted_indexes = @ \cup record_indexes], FALSE)

\* Manifest.delete_records(record_indexes), an int given as the set of it
DeleteRecords(w, record_indexes) ==
    UpdateCatalogMetadata(
        [w EXCEPT !.m.deleted_indexes = @ \cup record_indexes], TRUE)

\* A faulty restore_records: the deleted set is cleared
RestoreRecordsAll(w, record_indexes) ==
    UpdateCatalogMetadata([w EXCEPT !.m.deleted_indexes = {}], TRUE)

\* Manifest.restore_records(record_indexes)
RestoreRecords(w, record_indexes) ==
    UpdateCatalogMetadata(
        [w EXCEPT !.m.deleted_indexes = @ \ record_indexes], TRUE)

\* Manifest._update_session_info
UpdateSessionInfo(mo) ==
    LET sessions == mo.manifest_metadata.sessions
        all      == IF sessions.has THEN sessions.all_full_ids ELSE <<>>
    IN  [mo EXCEPT !.manifest_metadata.sessions =
            [has          |-> TRUE,
             last_id      |-> mo.session_id.id,
             last_full_id |-> mo.session_id.full_id,
             all_full_ids |-> Append(all, mo.session_id.full_id)]]

\* Manifest.write_metadata: lines 3 and 4 rewritten in place
WriteMetadata(w) ==
    [w EXCEPT !.mfile =
        UpdateLine(UpdateLine(@, 3, [dict |-> w.m.metadata]),
                   4, w.m.manifest_metadata)]

\* A faulty close: the session is recorded whether it wrote or not
CloseAlwaysRecording(w) ==
    LET w1 == WriteMetadata([w EXCEPT !.m = UpdateSessionInfo(@)])
    IN  [w1 EXCEPT !.m.is_closed = TRUE, !.m.seekeable_open = FALSE]

\* Manifest.close: nothing but _is_closed is touched when manifest.json does
\* not exist
Close(w) ==
    LET w1 == IF w.m.updated_session
              THEN WriteMetadata([w EXCEPT !.m = UpdateSessionInfo(@)])
              ELSE w
    IN  IF ~w.exists
        THEN [w EXCEPT !.m.is_closed = TRUE]
        ELSE [w1 EXCEPT !.m.is_closed = TRUE, !.m.seekeable_open = FALSE]

\* Manifest.__init__ up to the reading of manifest.json
NewManifest(inputs, types, max_len) ==
    [inputs            |-> inputs,
     types             |-> types,
     metadata          |-> {},
     manifest_metadata |-> [created_at |-> "", sessions |-> NoSessions],
     max_len           |-> max_len,
     read_only         |-> FALSE,
     current_index     |-> 0,
     catalog_paths     |-> <<>>,
     deleted_indexes   |-> {},
     updated_session   |-> FALSE,
     is_closed         |-> FALSE,
     seekeable_open    |-> FALSE,
     session_id        |-> [id |-> 0, full_id |-> ""]]

\* A faulty assert: the inputs alone are compared
SchemaMismatchInputs(mo, lines) ==
    /\ ~(mo.inputs = NoList /\ mo.types = NoList)
    /\ ~(mo.inputs = lines[1].list)

\* Manifest._read_contents: whether the assert on inputs and types fails
SchemaMismatch(mo, lines) ==
    /\ ~(mo.inputs = NoList /\ mo.types = NoList)
    /\ ~(mo.inputs = lines[1].list /\ mo.types = lines[2].list)

\* A faulty _read_contents: deleted_indexes is not read back
ReadContentsNoDeleted(mo, lines) ==
    LET adopt == mo.inputs = NoList /\ mo.types = NoList
    IN  [mo EXCEPT
            !.inputs            = IF adopt THEN lines[1].list ELSE @,
            !.types             = IF adopt THEN lines[2].list ELSE @,
            !.metadata          = lines[3].dict,
            !.manifest_metadata = lines[4],
            !.catalog_paths     = lines[5].paths,
            !.current_index     = lines[5].current_index,
            !.max_len           = lines[5].max_len]

\* A faulty _read_contents: the max_len argument is kept
ReadContentsArgMaxLen(mo, lines) ==
    LET adopt == mo.inputs = NoList /\ mo.types = NoList
    IN  [mo EXCEPT
            !.inputs            = IF adopt THEN lines[1].list ELSE @,
            !.types             = IF adopt THEN lines[2].list ELSE @,
            !.metadata          = lines[3].dict,
            !.manifest_metadata = lines[4],
            !.catalog_paths     = lines[5].paths,
            !.current_index     = lines[5].current_index,
            !.deleted_indexes   = Range(lines[5].deleted_indexes)]

\* Manifest._read_contents on the five lines of manifest.json
ReadContents(mo, lines) ==
    LET adopt == mo.inputs = NoList /\ mo.types = NoList
    IN  [mo EXCEPT
            !.inputs            = IF adopt THEN lines[1].list ELSE @,
            !.types             = IF adopt THEN lines[2].list ELSE @,
            !.metadata          = lines[3].dict,
            !.manifest_metadata = lines[4],
            !.catalog_paths     = lines[5].paths,
            !.current_index     = lines[5].current_index,
            !.max_len           = lines[5].max_len,
            !.deleted_indexes   = Range(lines[5].deleted_indexes)]

\* Manifest.__init__ from the reading of manifest.json on: the first catalog
\* when there is none, and the session id
FinishInit(w) ==
    LET w1 == IF Len(w.m.catalog_paths) > 0 THEN w
              ELSE AddCatalog(WriteContents(w))
    IN  [w1 EXCEPT !.m.session_id = CreateNewSessionId(w1)]

\* Manifest.__init__ on a directory without manifest.json: the manifest file
\* is created empty and self.seekeable is left open on it
CreateManifest(inputs, types, max_len) ==
    LET m0 == NewManifest(inputs, types, max_len)
        m1 == [m0 EXCEPT !.manifest_metadata.created_at = "time",
                         !.seekeable_open = TRUE]
    IN  FinishInit([exists |-> TRUE, mfile |-> <<>>, cats |-> <<>>, m |-> m1,
                    handles |-> {}])

\* Manifest._read_contents: whether it raises.  The five lines are read one
\* after the other; a line that is not there reads as '' and json.loads
\* raises on it, and the assert on inputs and types can fail.
ReadContentsRaises(mo, lines) ==
    IF Len(lines) < 5 THEN TRUE ELSE SchemaMismatch(mo, lines)

\* Manifest.__init__ on a directory that holds catalogs; raised tells
\* whether _read_contents raised.  The object of the failed call is dropped
\* and the one in use before stays.  When manifest.json does not exist it is
\* made as for a new datastore.
OpenManifest(w, inputs, types, max_len) ==
    LET m0 == NewManifest(inputs, types, max_len)
        m1 == [m0 EXCEPT !.manifest_metadata.created_at = "time",
                         !.seekeable_open = TRUE]
    IN  IF ~w.exists
        THEN [w |-> FinishInit([w EXCEPT !.exists = TRUE, !.mfile = <<>>,
                                         !.m = m1]),
              raised |-> FALSE]
        ELSE IF Len(w.mfile) > 0 /\ ReadContentsRaises(m0, w.mfile)
        THEN [w |-> w, raised |-> TRUE]
        ELSE [w |-> FinishInit(
                       [w EXCEPT !.m = IF Len(w.mfile) > 0
                                       THEN ReadContents(m0, w.mfile)
                                       ELSE m0]),
              raised |-> FALSE]

\* Manifest(base_path, read_only=True), no inputs and no types given.  The
\* Seekable on manifest.json is opened 'r' and mapped: it raises when
\* manifest.json is not there or holds nothing; _read_contents raises as for
\* a writable open; with no catalog stored _write_contents is called, whose
\* truncate_until_end raises.  No file is changed.
OpenManifestReadOnly(w, max_len) ==
    LET m0 == [NewManifest(NoList, NoList, max_len) EXCEPT !.read_only = TRUE]
        m1 == ReadContents(m0, w.mfile)
        w1 == [w EXCEPT !.m = m1]
    IN  IF ~w.exists \/ Len(w.mfile) = 0 THEN [w |-> w, raised |-> TRUE]
        ELSE IF ReadContentsRaises(m0, w.mfile) THEN [w |-> w, raised |-> TRUE]
        ELSE IF Len(m1.catalog_paths) = 0 THEN [w |-> w, raised |-> TRUE]
        ELSE [w |-> [w1 EXCEPT !.m.session_id = CreateNewSessionId(w1)],
              raised |-> FALSE]

----------------------------------------------------------------------------
(* The calls step by step: the datastore after each of the file-level steps
   (a file made, a truncate, a writeline) of a call, the last being the
   datastore when the call returns *)

Last(steps) == steps[Len(steps)]

\* Seekable.update_line: truncate_until_end, writeline, and one writeline
\* for each of the lines that were read behind the updated one
UpdateLineSteps(lines, line_number, contents) ==
    LET old  == ReadFrom(lines, line_number)
        cut  == TruncateUntilEnd(lines, line_number - 1)
        new  == WriteLine(cut, contents)
        rest == IF Len(old) > 1 THEN Tail(old) ELSE <<>>
    IN  <<cut, new>> \o
        [i \in 1..Len(rest) |-> WriteLines(new, SubSeq(rest, 1, i))]

\* Manifest.write_metadata: update_line(3), then update_line(4)
WriteMetadataSteps(w) ==
    LET s3 == UpdateLineSteps(w.mfile, 3, [dict |-> w.m.metadata])
        s4 == UpdateLineSteps(Last(s3), 4, w.m.manifest_metadata)
        all == s3 \o s4
    IN  [i \in 1..Len(all) |-> [w EXCEPT !.mfile = all[i]]]

\* Manifest._update_catalog_metadata(update=True): truncate_until_end(4),
\* then writeline
UpdateCatalogMetadataSteps(w) ==
    <<[w EXCEPT !.exists = TRUE, !.mfile = TruncateUntilEnd(@, 4)],
      UpdateCatalogMetadata(w, TRUE)>>

\* Manifest._add_catalog: the catalog manifest made empty, the catalog
\* manifest written and the catalog made, then line 5
AddCatalogSteps(w) ==
    LET current_length == Len(w.m.catalog_paths)
        made == [w EXCEPT !.cats =
                    IF CatalogExists(@, current_length) THEN @
                    ELSE Append(@, [data |-> <<>>, manifest |-> <<>>])]
        w1   == [w EXCEPT !.cats = CatalogOpen(@, current_length,
                                               w.m.current_index)]
        w2   == [w1 EXCEPT !.m.catalog_paths = Append(@, current_length)]
    IN  <<made, w1>> \o UpdateCatalogMetadataSteps(w2)

\* Manifest.write_record(record), json.dumps not raising: _add_catalog when
\* one is due, the catalog opened, Seekable.writeline on the catalog, the
\* truncate and the writeline of CatalogMetadata._update, then line 5
WriteRecordSteps(w, record) ==
    LET s1   == IF NewCatalog(w.m) THEN AddCatalogSteps(w) ELSE <<w>>
        w1   == Last(s1)
        name == CurrentCatalogName(w1.m)
        w2   == [w1 EXCEPT !.cats = CatalogOpen(@, name, w1.m.current_index)]
        done == CatalogWriteRecord(w2.cats[name + 1], record, w.m.current_index)
        w3   == [w2 EXCEPT !.cats[name + 1].data = done.data]
        w4   == [w3 EXCEPT !.cats[name + 1].manifest = TruncateUntilEnd(@, 0)]
        w5   == [w4 EXCEPT !.cats[name + 1].manifest = done.manifest]
        w6   == [w5 EXCEPT !.m.current_index = @ + 1,
                           !.m.updated_session = TRUE]
    IN  s1 \o <<w2, w3, w4, w5>> \o UpdateCatalogMetadataSteps(w6)

\* Manifest.delete_records(record_indexes)
DeleteRecordsSteps(w, record_indexes) ==
    UpdateCatalogMetadataSteps(
        [w EXCEPT !.m.deleted_indexes = @ \cup record_indexes])

\* Manifest.restore_records(record_indexes)
RestoreRecordsSteps(w, record_indexes) ==
    UpdateCatalogMetadataSteps(
        [w EXCEPT !.m.deleted_indexes = @ \ record_indexes])

\* Manifest.close of a session that wrote, manifest.json existing
CloseSteps(w) ==
    LET steps == WriteMetadataSteps([w EXCEPT !.m = UpdateSessionInfo(@)])
    IN  [i \in 1..Len(steps) |->
            IF i < Len(steps) THEN steps[i]
            ELSE [steps[i] EXCEPT !.m.is_closed = TRUE,
                                  !.m.seekeable_open = FALSE]]

----------------------------------------------------------------------------
(* ManifestIterator *)

NoLine == [k |-> "", v |-> 0, idx |-> -1]

NoIterator ==
    [alive |-> FALSE, has_catalogs |-> FALSE, current_index |-> 0,
     current_catalog_index |-> 0, cat_open |-> FALSE, cat_pos |-> 0,
     stopped |-> FALSE, running |-> FALSE]

\* A faulty __init__: a closed manifest is taken to have no catalogs
NewIteratorOpenOnly(mo) ==
    [alive |-> TRUE, has_catalogs |-> Len(mo.catalog_paths) > 0 /\ ~mo.is_closed,
     current_index |-> 0, current_catalog_index |-> 0,
     cat_open |-> FALSE, cat_pos |-> 0, stopped |-> FALSE,
     running |-> FALSE]

\* ManifestIterator.__init__.  current_catalog is an open Catalog or None
\* (cat_open) and the number of lines read from it (cat_pos); stopped records
\* that __next__ has raised StopIteration (history), running that a call of
\* __next__ is inside its loop.
NewIterator(mo) ==
    [alive |-> TRUE, has_catalogs |-> Len(mo.catalog_paths) > 0,
     current_index |-> 0, current_catalog_index |-> 0,
     cat_open |-> FALSE, cat_pos |-> 0, stopped |-> FALSE,
     running |-> FALSE]

\* current_catalog.close() of the iterator, and Catalog.__del__ when the
\* iterator is dropped
CloseIteratorCatalogs(w) ==
    [w EXCEPT !.handles = {h \in @ : h.owner # "ManifestIterator"}]

\* A faulty skip test: current_index is looked up after it was advanced
SkipIndexAdvanced(current_index, mo) == current_index + 1 \in mo.deleted_indexes

\* ManifestIterator.__next__: whether the line just read is skipped, given
\* the value current_index had before it was advanced
SkipIndex(current_index, mo) == current_index \in mo.deleted_indexes

\* A faulty pass of the loop: a line that does not parse is not counted as
\* read, so the next pass reads it again
IterPassRereading(i, w) ==
    IF ~i.has_catalogs
    THEN [it |-> [i EXCEPT !.stopped = TRUE], w |-> Close(w),
          stop |-> TRUE, line |-> NoLine, again |-> FALSE,
          raised |-> FALSE]
    ELSE IF i.current_catalog_index >= Len(w.m.catalog_paths)
    THEN [it |-> [i EXCEPT !.stopped = TRUE],
          w |-> Close(IF i.cat_open THEN CloseIteratorCatalogs(w) ELSE w),
          stop |-> TRUE, line |-> NoLine, again |-> FALSE,
          raised |-> FALSE]
    ELSE IF /\ ~i.cat_open
            /\ w.m.read_only
            /\ CatalogReadOnlyRaises(
                   w.cats, w.m.catalog_paths[i.current_catalog_index + 1])
    THEN [it |-> i, w |-> w, stop |-> FALSE, line |-> NoLine,
          again |-> FALSE, raised |-> TRUE]
    ELSE LET name == w.m.catalog_paths[i.current_catalog_index + 1]
             w1   == IF i.cat_open THEN w
                     ELSE OpenCatalog(w, "ManifestIterator", name, 0)
             i1   == IF i.cat_open THEN i
                     ELSE [i EXCEPT !.cat_open = TRUE, !.cat_pos = 0]
             data == w1.cats[name + 1].data
         IN  IF i1.cat_pos < Len(data) /\ TextLen(data[i1.cat_pos + 1]) > 0
             THEN LET i2 == [i1 EXCEPT !.cat_pos = @ + 1,
                                       !.current_index = @ + 1]
                  IN  IF SkipIndex(i1.current_index, w1.m)
                      THEN [it |-> i2, w |-> w1, stop |-> FALSE,
                            line |-> NoLine, again |-> TRUE,
                            raised |-> FALSE]
                      ELSE IF JsonLoadsRaises(data[i1.cat_pos + 1])
                      THEN [it |-> i1, w |-> w1, stop |-> FALSE,
                            line |-> NoLine, again |-> TRUE,
                            raised |-> FALSE]
                      ELSE [it |-> i2, w |-> w1, stop |-> FALSE,
                            line |-> data[i1.cat_pos + 1], again |-> FALSE,
                            raised |-> FALSE]
             ELSE [it |-> [i1 EXCEPT !.cat_open = FALSE,
                                     !.current_catalog_index = @ + 1],
                   w |-> CloseCatalog(w1, "ManifestIterator", name),
                   stop |-> FALSE, line |-> NoLine, again |-> TRUE,
                   raised |-> FALSE]

\* ManifestIterator.__next__: one pass of the while loop.  It ends the call
\* with StopIteration (stop), which closes the manifest, or with the return
\* of a record (line, the line it was parsed from), or the loop goes on
\* (again); on a read-only datastore the Catalog that cannot be opened ends
\* it with the exception of the open (raised).  The catalog is left when readline returns no character: at the
\* end of the file and at a line that holds nothing but its newline.
IterPass(i, w) ==
    IF ~i.has_catalogs
    THEN [it |-> [i EXCEPT !.stopped = TRUE], w |-> Close(w),
          stop |-> TRUE, line |-> NoLine, again |-> FALSE,
          raised |-> FALSE]
    ELSE IF i.current_catalog_index >= Len(w.m.catalog_paths)
    THEN [it |-> [i EXCEPT !.stopped = TRUE],
          w |-> Close(IF i.cat_open THEN CloseIteratorCatalogs(w) ELSE w),
          stop |-> TRUE, line |-> NoLine, again |-> FALSE,
          raised |-> FALSE]
    ELSE IF /\ ~i.cat_open
            /\ w.m.read_only
            /\ CatalogReadOnlyRaises(
                   w.cats, w.m.catalog_paths[i.current_catalog_index + 1])
    THEN [it |-> i, w |-> w, stop |-> FALSE, line |-> NoLine,
          again |-> FALSE, raised |-> TRUE]
    ELSE LET name == w.m.catalog_paths[i.current_catalog_index + 1]
             w1   == IF i.cat_open THEN w
                     ELSE OpenCatalog(w, "ManifestIterator", name, 0)
             i1   == IF i.cat_open THEN i
                     ELSE [i EXCEPT !.cat_open = TRUE, !.cat_pos = 0]
             data == w1.cats[name + 1].data
         IN  IF i1.cat_pos < Len(data) /\ TextLen(data[i1.cat_pos + 1]) > 0
             THEN LET i2 == [i1 EXCEPT !.cat_pos = @ + 1,
                                       !.current_index = @ + 1]
                  IN  IF SkipIndex(i1.current_index, w1.m)
                      THEN [it |-> i2, w |-> w1, stop |-> FALSE,
                            line |-> NoLine, again |-> TRUE,
                            raised |-> FALSE]
                      ELSE IF JsonLoadsRaises(data[i1.cat_pos + 1])
                      THEN [it |-> i2, w |-> w1, stop |-> FALSE,
                            line |-> NoLine, again |-> TRUE,
                            raised |-> FALSE]
                      ELSE [it |-> i2, w |-> w1, stop |-> FALSE,
                            line |-> data[i1.cat_pos + 1], again |-> FALSE,
                            raised |-> FALSE]
             ELSE [it |-> [i1 EXCEPT !.cat_open = FALSE,
                                     !.current_catalog_index = @ + 1],
                   w |-> CloseCatalog(w1, "ManifestIterator", name),
                   stop |-> FALSE, line |-> NoLine, again |-> TRUE,
                   raised |-> FALSE]

\* ManifestIterator.__next__: the loop, to the return of a record or to
\* StopIteration
RECURSIVE IterLoop(_)
IterLoop(r) == IF r.again THEN IterLoop(IterPass(r.it, r.w)) ELSE r

IterNext(i, w) == IterLoop(IterPass(i, w))

\* list(manifest): the lines a new iterator returns records from, in order,
\* until it raises StopIteration
RECURSIVE Drain(_, _)
Drain(i, w) ==
    LET r == IterNext(i, w)
    IN  IF r.stop \/ r.raised THEN <<>> ELSE <<r.line>> \o Drain(r.it, r.w)

IterateAll(w) == Drain(NewIterator(w.m), w)

\* list(manifest): the datastore as the iterator leaves it when it raises
\* StopIteration
RECURSIVE DrainWorld(_, _)
DrainWorld(i, w) ==
    LET r == IterNext(i, w)
    IN  IF r.stop \/ r.raised THEN r.w ELSE DrainWorld(r.it, r.w)

IterateAllWorld(w) == DrainWorld(NewIterator(w.m), w)

\* Manifest.__len__
ManifestLen(mo) == mo.current_index - Cardinality(mo.deleted_indexes)

\* len(manifest): the builtin raises ValueError when __len__ returns a
\* negative number
BuiltinLen(mo) ==
    IF ManifestLen(mo) < 0
    THEN [raised |-> TRUE, value |-> 0]
    ELSE [raised |-> FALSE, value |-> ManifestLen(mo)]

----------------------------------------------------------------------------
(* The calls *)

World ==
    [exists |-> exists, mfile |-> mfile, cats |-> cats, m |-> m,
     handles |-> handles]

\* what a caller can see of the datastore without changing it
Observed(w) ==
    [has     |-> TRUE,
     deleted |-> w.m.deleted_indexes,
     len     |-> ManifestLen(w.m),
     line5   |-> IF Len(w.mfile) >= 5 THEN <<w.mfile[5]>> ELSE <<>>,
     lines   |-> IterateAll(w)]

NoSnapshot ==
    [has |-> FALSE, deleted |-> {}, len |-> 0, line5 |-> <<>>, lines |-> <<>>]

\* op.indexes and op.before are kept only by the calls made with history:
\* before is what was observed before a delete_records, and a restore_records
\* of the same indexes made right after it carries it on; a list(manifest)
\* made right after another one carries the lines of that one in before
NoCall ==
    [name |-> "create", record |-> NoRecord, inputs |-> NoList,
     types |-> NoList, max_len |-> 0, raised |-> FALSE, line |-> NoLine,
     lines |-> <<>>, indexes |-> {}, before |-> NoSnapshot]

IndexArgs == SUBSET (0..MaxDelIndex)

\* close() appends to sessions.all_full_ids when the session wrote
CloseInBounds(mo) ==
    mo.updated_session =>
        Len(mo.manifest_metadata.sessions.all_full_ids) < MaxSessionLog

Become(w) ==
    /\ exists' = w.exists
    /\ mfile' = w.mfile
    /\ cats' = w.cats
    /\ m' = w.m
    /\ handles' = w.handles

\* the last call on the Seekable sk: result is what read_from returned, or
\* the one str readline returned
NoSeekableCall ==
    [name |-> "open", n |-> 0, contents |-> <<>>, raised |-> FALSE,
     result |-> <<>>]

\* Manifest(base_path, inputs=["angle"], types=["float"], max_len=MaxLenArg)
\* on an empty directory, and Seekable(path) on a file that is not there
Init ==
    LET w == CreateManifest(<<"angle">>, <<"float">>, MaxLenArg)
    IN  /\ exists = w.exists
        /\ mfile = w.mfile
        /\ cats = w.cats
        /\ m = w.m
        /\ handles = w.handles
        /\ it = NoIterator
        /\ op = NoCall
        /\ written = <<>>
        /\ sk = Seekable_init(<<>>, FALSE, <<>>).s
        /\ skop = NoSeekableCall

WriteRecordCall(record) ==
    /\ m.current_index < MaxIndex
    /\ NewCatalog(m) => Len(m.catalog_paths) < MaxCatalogs
    /\ LET r == WriteRecord(World, record)
       IN  /\ Become(r.w)
           /\ op' = [NoCall EXCEPT !.name = "write_record", !.record = record,
                                   !.raised = r.raised]
           /\ written' = IF r.raised THEN written ELSE Append(written, record)
    /\ UNCHANGED <<it, sk, skop>>

DeleteRecordsCall(record_indexes, history) ==
    /\ Become(DeleteRecords(World, record_indexes))
    /\ op' = IF history
             THEN [NoCall EXCEPT !.name = "delete_records",
                                 !.indexes = record_indexes,
                                 !.before = Observed(World)]
             ELSE [NoCall EXCEPT !.name = "delete_records"]
    /\ UNCHANGED <<it, written, sk, skop>>

RestoreRecordsCall(record_indexes, history) ==
    /\ Become(RestoreRecords(World, record_indexes))
    /\ op' = IF history
             THEN [NoCall EXCEPT !.name = "restore_records",
                                 !.indexes = record_indexes,
                                 !.before =
                                     IF /\ op.name = "delete_records"
                                        /\ op.indexes = record_indexes
                                     THEN op.before ELSE NoSnapshot]
             ELSE [NoCall EXCEPT !.name = "restore_records"]
    /\ UNCHANGED <<it, written, sk, skop>>

CloseCall ==
    /\ CloseInBounds(m)
    /\ Become(Close(World))
    /\ op' = [NoCall EXCEPT !.name = "close"]
    /\ UNCHANGED <<it, written, sk, skop>>

\* Manifest(base_path, inputs, types, max_len=max_len) on the same directory.
\* The iterator over the object in use before is dropped with that object.
OpenCall(inputs, types, max_len) ==
    LET r == OpenManifest(World, inputs, types, max_len)
    IN  /\ Become(IF r.raised THEN r.w ELSE CloseIteratorCatalogs(r.w))
        /\ it' = IF r.raised THEN it ELSE NoIterator
        /\ op' = [NoCall EXCEPT !.name = "open", !.inputs = inputs,
                                !.types = types, !.max_len = max_len,
                                !.raised = r.raised]
        /\ UNCHANGED <<written, sk, skop>>

\* iter(manifest); the iterator in use before is dropped
IterCall ==
    /\ it' = NewIterator(m)
    /\ handles' = CloseIteratorCatalogs(World).handles
    /\ op' = [NoCall EXCEPT !.name = "iter"]
    /\ UNCHANGED <<exists, mfile, cats, m, written, sk, skop>>

\* next(iterator)
NextCall ==
    /\ it.alive
    /\ LET r == IterNext(it, World)
       IN  /\ r.stop => CloseInBounds(m)
           /\ Become(r.w)
           /\ it' = r.it
           /\ op' = [NoCall EXCEPT !.name = "next", !.raised = r.stop,
                                   !.line = r.line]
    /\ UNCHANGED <<written, sk, skop>>

\* next(iterator) is entered
NextBeginCall ==
    /\ it.alive
    /\ ~it.running
    /\ it' = [it EXCEPT !.running = TRUE]
    /\ op' = [NoCall EXCEPT !.name = "in_next"]
    /\ UNCHANGED <<exists, mfile, cats, m, written, handles, sk, skop>>

\* one pass of the loop of the next(iterator) that was entered; the call is
\* left when the pass returns a record or raises StopIteration
LoopPassCall ==
    /\ it.running
    /\ LET r == IterPass(it, World)
       IN  /\ Become(r.w)
           /\ it' = [r.it EXCEPT !.running = r.again]
           /\ op' = IF r.again THEN op
                    ELSE [NoCall EXCEPT !.name = "next", !.raised = r.stop,
                                        !.line = r.line]
    /\ UNCHANGED <<written, sk, skop>>

\* list(manifest): a new iterator run until it raises StopIteration
ListCall ==
    /\ CloseInBounds(m)
    /\ Become(IterateAllWorld(World))
    /\ op' = [NoCall EXCEPT
                 !.name = "list",
                 !.lines = IterateAll(World),
                 !.before = IF op.name = "list"
                            THEN [NoSnapshot EXCEPT !.has = TRUE,
                                                    !.lines = op.lines]
                            ELSE NoSnapshot]
    /\ UNCHANGED <<it, written, sk, skop>>

\* Manifest(base_path, read_only=True, max_len=max_len) on the directory of
\* a Manifest that was closed; op.before is what a caller can see right after
\* the open, and the calls on the read-only Manifest carry it on
OpenReadOnlyCall(max_len) ==
    LET r == OpenManifestReadOnly(World, max_len)
    IN  /\ ~m.read_only
        /\ m.is_closed
        /\ ~r.raised
        /\ Become(CloseIteratorCatalogs(r.w))
        /\ it' = NoIterator
        /\ op' = [NoCall EXCEPT !.name = "open", !.max_len = max_len,
                                !.before = Observed(r.w)]
        /\ UNCHANGED <<written, sk, skop>>

\* Manifest.write_record on a read-only Manifest: it raises always.
\* _add_catalog raises in Catalog() unless the files of the new catalog are
\* there, and then appends the name before _update_catalog_metadata raises
\* in truncate_until_end; otherwise Catalog() raises, or json.dumps, or
\* Seekable.writeline (RuntimeError), and cat.close() is in the finally
\* clause.
ReadOnlyWriteRecordCall(record) ==
    LET current_length == Len(m.catalog_paths)
    IN  /\ m.read_only
        /\ m' = IF /\ NewCatalog(m)
                   /\ ~CatalogReadOnlyRaises(cats, current_length)
                THEN [m EXCEPT !.catalog_paths = Append(@, current_length)]
                ELSE m
        /\ op' = [NoCall EXCEPT !.name = "write_record", !.record = record,
                                !.raised = TRUE, !.before = op.before]
        /\ UNCHANGED <<exists, mfile, cats, handles, it, written, sk, skop>>

\* Manifest.delete_records on a read-only Manifest: deleted_indexes is
\* updated, then _update_catalog_metadata raises (the open of a manifest.json
\* that is gone, or truncate_until_end on the mmap)
ReadOnlyDeleteRecordsCall(record_indexes) ==
    /\ m.read_only
    /\ m' = [m EXCEPT !.deleted_indexes = @ \cup record_indexes]
    /\ op' = [NoCall EXCEPT !.name = "delete_records",
                            !.indexes = record_indexes,
                            !.raised = TRUE, !.before = op.before]
    /\ UNCHANGED <<exists, mfile, cats, handles, it, written, sk, skop>>

\* Manifest.restore_records on a read-only Manifest, likewise
ReadOnlyRestoreRecordsCall(record_indexes) ==
    /\ m.read_only
    /\ m' = [m EXCEPT !.deleted_indexes = @ \ record_indexes]
    /\ op' = [NoCall EXCEPT !.name = "restore_records",
                            !.indexes = record_indexes,
                            !.raised = TRUE, !.before = op.before]
    /\ UNCHANGED <<exists, mfile, cats, handles, it, written, sk, skop>>

\* close() of the read-only Manifest
ReadOnlyCloseCall ==
    /\ m.read_only
    /\ CloseInBounds(m)
    /\ Become(Close(World))
    /\ op' = [NoCall EXCEPT !.name = "close", !.before = op.before]
    /\ UNCHANGED <<it, written, sk, skop>>

\* list(manifest) of the read-only Manifest
ReadOnlyListCall ==
    /\ m.read_only
    /\ CloseInBounds(m)
    /\ Become(IterateAllWorld(World))
    /\ op' = [NoCall EXCEPT !.name = "list", !.lines = IterateAll(World),
                            !.before = op.before]
    /\ UNCHANGED <<it, written, sk, skop>>

\* Line j of catalog_<n>.catalog is replaced outside the program by a line
\* that is no JSON text
CorruptCall(n, j, text) ==
    /\ CatalogExists(cats, n)
    /\ j <= Len(cats[n + 1].data)
    /\ cats[n + 1].data[j].v >= 0
    /\ cats' = [cats EXCEPT ![n + 1].data[j] =
                    [k |-> text.k, v |-> text.v, idx |-> @.idx]]
    /\ op' = [NoCall EXCEPT !.name = "corrupt"]
    /\ UNCHANGED <<exists, mfile, m, it, written, handles, sk, skop>>

\* close() of a session that wrote, the rewrite of lines 3 and 4 hitting an
\* I/O failure: the OSError is raised by the open of manifest.json (done = 0)
\* or by the file-level step that follows the first done steps of
\* write_metadata, and nothing catches it
CloseFailingCall ==
    /\ exists
    /\ m.updated_session
    /\ CloseInBounds(m)
    /\ LET w     == [World EXCEPT !.m = UpdateSessionInfo(@)]
           steps == WriteMetadataSteps(w)
       IN  \E done \in 0..(Len(steps) - 1) :
               Become(IF done = 0 THEN w ELSE [steps[done] EXCEPT !.m = w.m])
    /\ op' = [NoCall EXCEPT !.name = "close", !.raised = TRUE]
    /\ UNCHANGED <<it, written, sk, skop>>

\* manifest.json is removed outside the program
RemoveManifestCall ==
    /\ exists
    /\ exists' = FALSE
    /\ mfile' = <<>>
    /\ op' = [NoCall EXCEPT !.name = "remove"]
    /\ UNCHANGED <<cats, m, it, written, handles, sk, skop>>

\* the lines of all catalog files, in the order of the catalog numbers
RECURSIVE StoredLines(_)
StoredLines(cc) ==
    IF cc = <<>> THEN <<>>
    ELSE StoredLines(SubSeq(cc, 1, Len(cc) - 1)) \o cc[Len(cc)].data

\* The calls in which a process can stop, and the steps of each
CrashCalls == {"write_record", "delete_records", "restore_records", "close"}

CallSteps(call, record_indexes) ==
    CASE call = "write_record"    -> WriteRecordSteps(World, RecStr)
      [] call = "delete_records"  -> DeleteRecordsSteps(World, record_indexes)
      [] call = "restore_records" -> RestoreRecordsSteps(World, record_indexes)
      [] call = "close"           -> CloseSteps(World)

\* there is a Manifest object: the process has not stopped, and the
\* Manifest() call of a new process has not raised
HasManifest ==
    /\ op.name # "crash"
    /\ ~(op.name = "open" /\ op.raised)

\* The process stops inside a call, the first done of its file-level steps
\* made and the next one not: the files stay as they are then and the
\* Manifest object is gone (m is an object that was given nothing, and
\* nothing reads it before the Manifest() call of a new process returns)
CrashCall(call, record_indexes) ==
    /\ call \in {"write_record", "close"} => record_indexes = {}
    /\ call = "write_record" =>
           /\ m.current_index < MaxIndex
           /\ Len(StoredLines(cats)) < MaxIndex
           /\ NewCatalog(m) => Len(m.catalog_paths) < MaxCatalogs
    /\ call = "close" => (m.updated_session /\ CloseInBounds(m))
    /\ LET steps == CallSteps(call, record_indexes)
       IN  \E done \in 1..(Len(steps) - 1) :
               /\ exists' = steps[done].exists
               /\ mfile' = steps[done].mfile
               /\ cats' = steps[done].cats
    /\ m' = NewManifest(NoList, NoList, 0)
    /\ handles' = {}
    /\ op' = [NoCall EXCEPT !.name = "crash", !.inputs = <<call>>]
    /\ UNCHANGED <<it, written, sk, skop>>

\* The calls on the Seekable sk leave the datastore as it is
datastore == <<exists, mfile, cats, m, it, op, written, handles>>

\* the str a caller passes to writeline and update_line: the empty str,
\* lines with and without their newline, a line of nothing but the newline;
\* and a line of one byte and a line with a character of two bytes
AsciiContents == {<<>>, <<"a">>, <<"b", "b", NEWLINE>>, <<NEWLINE>>}
Utf8Contents == {<<"a">>, <<EAcute>>}

LineArgs == 0..MaxLineArg

\* sk.writeline(contents)
WritelineCall(contents, max_file_len) ==
    LET r == Seekable_writeline(sk, contents)
    IN  /\ Len(r.s.file) <= max_file_len
        /\ sk' = r.s
        /\ skop' = [NoSeekableCall EXCEPT !.name = "writeline",
                                          !.contents = contents,
                                          !.raised = r.raised]
        /\ UNCHANGED datastore

\* sk.truncate_until_end(n)
TruncateUntilEndCall(n) ==
    LET r == Seekable_truncate_until_end(sk, n)
    IN  /\ sk' = r.s
        /\ skop' = [NoSeekableCall EXCEPT !.name = "truncate_until_end",
                                          !.n = n, !.raised = r.raised]
        /\ UNCHANGED datastore

\* sk.update_line(n, contents)
UpdateLineCall(n, contents, max_file_len) ==
    LET r == Seekable_update_line(sk, n, contents)
    IN  /\ Len(r.s.file) <= max_file_len
        /\ sk' = r.s
        /\ skop' = [NoSeekableCall EXCEPT !.name = "update_line", !.n = n,
                                          !.contents = contents,
                                          !.raised = r.raised]
        /\ UNCHANGED datastore

\* sk.read_from(n)
ReadFromCall(n) ==
    LET r == Seekable_read_from(sk, n)
    IN  /\ sk' = r.s
        /\ skop' = [NoSeekableCall EXCEPT !.name = "read_from", !.n = n,
                                          !.raised = r.raised,
                                          !.result = IF r.raised THEN <<>>
                                                     ELSE r.lines]
        /\ UNCHANGED datastore

\* sk.seek_line_start(n); sk.readline()
ReadLineCall(n) ==
    LET r == Seekable_readline(Seekable_seek_line_start(sk, n))
    IN  /\ sk' = r.s
        /\ skop' = [NoSeekableCall EXCEPT !.name = "readline", !.n = n,
                                          !.raised = r.raised,
                                          !.result = IF r.raised THEN <<>>
                                                     ELSE <<r.contents>>]
        /\ UNCHANGED datastore

\* sk.close(); sk = Seekable(path, read_only), or Seekable(path, read_only,
\* line_lengths=...) with the line_lengths of the object that was closed, as
\* Catalog does with the list its manifest holds.  When the constructor
\* raises there is no new object.
ReopenCall(read_only, supplied) ==
    LET r == Seekable_init(sk.file, read_only,
                           IF supplied THEN sk.line_lengths ELSE <<>>)
    IN  /\ sk' = IF r.raised THEN sk ELSE r.s
        /\ skop' = [NoSeekableCall EXCEPT !.name = "open",
                                          !.n = IF supplied THEN 1 ELSE 0,
                                          !.raised = r.raised]
        /\ UNCHANGED datastore

\* The datastore written, closed and opened again
Next ==
    \/ \E record \in Records : WriteRecordCall(record)
    \/ \E record_indexes \in IndexArgs : DeleteRecordsCall(record_indexes, FALSE)
    \/ \E record_indexes \in IndexArgs : RestoreRecordsCall(record_indexes, FALSE)
    \/ CloseCall
    \/ \E schema \in SchemaArgs, max_len \in 1..MaxLenArg :
           OpenCall(schema.inputs, schema.types, max_len)

Spec == Init /\ [][Next]_vars

\* The datastore iterated while it is written
NextIter ==
    \/ \E record \in Records : WriteRecordCall(record)
    \/ \E record_indexes \in IndexArgs : DeleteRecordsCall(record_indexes, FALSE)
    \/ \E record_indexes \in IndexArgs : RestoreRecordsCall(record_indexes, FALSE)
    \/ IterCall
    \/ NextCall

SpecIter == Init /\ [][NextIter]_vars

\* delete_records, restore_records and list(manifest) with the history of
\* what was observed
NextUndo ==
    \/ \E record \in Records : WriteRecordCall(record)
    \/ \E record_indexes \in IndexArgs : DeleteRecordsCall(record_indexes, TRUE)
    \/ \E record_indexes \in IndexArgs : RestoreRecordsCall(record_indexes, TRUE)
    \/ ListCall

SpecUndo == Init /\ [][NextUndo]_vars

\* The datastore written while lines of its catalogs are damaged
NextCorrupt ==
    \/ \E record \in Records : WriteRecordCall(record)
    \/ \E record_indexes \in IndexArgs : DeleteRecordsCall(record_indexes, FALSE)
    \/ \E n \in 0..(MaxCatalogs - 1), j \in 1..MaxLenArg, text \in MalformedTexts :
           CorruptCall(n, j, text)

SpecCorrupt == Init /\ [][NextCorrupt]_vars

\* The datastore closed when the rewrite of manifest.json fails and when
\* manifest.json is gone; once it is gone only close() is called
NextFault ==
    \/ exists /\ WriteRecordCall(RecStr)
    \/ \E record_indexes \in IndexArgs :
           exists /\ DeleteRecordsCall(record_indexes, FALSE)
    \/ CloseFailingCall
    \/ RemoveManifestCall
    \/ CloseCall

SpecFault == Init /\ [][NextFault]_vars

\* The datastore written by processes that can stop inside a call, each new
\* process making its Manifest with no inputs and no types
CrashIndexArgs == {{}, {0}, {1}}

NextCrash ==
    \/ HasManifest /\ WriteRecordCall(RecStr)
    \/ \E record_indexes \in CrashIndexArgs :
           HasManifest /\ DeleteRecordsCall(record_indexes, FALSE)
    \/ \E record_indexes \in CrashIndexArgs :
           HasManifest /\ RestoreRecordsCall(record_indexes, FALSE)
    \/ HasManifest /\ CloseCall
    \/ \E call \in CrashCalls, record_indexes \in CrashIndexArgs :
           HasManifest /\ CrashCall(call, record_indexes)
    \/ OpenCall(NoList, NoList, MaxLenArg)

SpecCrash == Init /\ [][NextCrash]_vars

\* A datastore is written, marked and damaged, then one iterator is made
\* and next() is called on it, pass by pass, until it raises StopIteration.
\* The caller goes on calling next() and every pass of the loop is run.
LiveRecords == {RecStr, RecNaN}
LiveIndexArgs == {{i} : i \in 0..MaxDelIndex}

NextIterLive ==
    \/ \E record \in LiveRecords : ~it.alive /\ WriteRecordCall(record)
    \/ \E record_indexes \in LiveIndexArgs :
           ~it.alive /\ DeleteRecordsCall(record_indexes, FALSE)
    \/ \E n \in 0..(MaxCatalogs - 1), j \in 1..MaxLenArg, text \in MalformedTexts :
           ~it.alive /\ CorruptCall(n, j, text)
    \/ ~it.alive /\ IterCall
    \/ ~it.stopped /\ NextBeginCall
    \/ LoopPassCall

SpecIterLive ==
    /\ Init
    /\ [][NextIterLive]_vars
    /\ WF_vars(~it.stopped /\ NextBeginCall)
    /\ WF_vars(LoopPassCall)

\* A datastore is written and closed, then opened read-only and called
NextReadOnly ==
    \/ \E record \in Records : ~m.read_only /\ WriteRecordCall(record)
    \/ \E record_indexes \in LiveIndexArgs :
           ~m.read_only /\ DeleteRecordsCall(record_indexes, FALSE)
    \/ ~m.read_only /\ CloseCall
    \/ OpenReadOnlyCall(MaxLenArg)
    \/ \E record \in Records : ReadOnlyWriteRecordCall(record)
    \/ \E record_indexes \in LiveIndexArgs :
           ReadOnlyDeleteRecordsCall(record_indexes)
    \/ \E record_indexes \in LiveIndexArgs :
           ReadOnlyRestoreRecordsCall(record_indexes)
    \/ ReadOnlyCloseCall
    \/ ReadOnlyListCall

SpecReadOnly == Init /\ [][NextReadOnly]_vars

\* A Seekable written, cut, read and opened again, its lines ASCII
NextSeek ==
    \/ \E contents \in AsciiContents : WritelineCall(contents, MaxFileLen)
    \/ \E n \in LineArgs : TruncateUntilEndCall(n)
    \/ \E n \in LineArgs, contents \in AsciiContents :
           UpdateLineCall(n, contents, MaxFileLen)
    \/ \E n \in LineArgs : ReadFromCall(n)
    \/ \E n \in LineArgs : ReadLineCall(n)
    \/ \E supplied \in BOOLEAN : ReopenCall(FALSE, supplied)

SpecSeek == Init /\ [][NextSeek]_vars

\* The same with a character that takes two bytes
NextSeekUtf8 ==
    \/ \E contents \in Utf8Contents : WritelineCall(contents, MaxUtf8FileLen)
    \/ \E n \in LineArgs : TruncateUntilEndCall(n)
    \/ \E n \in LineArgs, contents \in Utf8Contents :
           UpdateLineCall(n, contents, MaxUtf8FileLen)
    \/ \E n \in LineArgs : ReadFromCall(n)
    \/ \E n \in LineArgs : ReadLineCall(n)
    \/ \E supplied \in BOOLEAN : ReopenCall(FALSE, supplied)

SpecSeekUtf8 == Init /\ [][NextSeekUtf8]_vars

\* A Seekable written and then opened read-only, or writable again
ReadOnlyContents == {<<>>, <<"a">>, <<"b", "b", NEWLINE>>, <<EAcute>>}
ReadOnlyLineArgs == 0..MaxReadOnlyLineArg

NextSeekReadOnly ==
    \/ \E contents \in ReadOnlyContents :
           WritelineCall(contents, MaxReadOnlyFileLen)
    \/ \E n \in ReadOnlyLineArgs : TruncateUntilEndCall(n)
    \/ \E n \in ReadOnlyLineArgs, contents \in ReadOnlyContents :
           UpdateLineCall(n, contents, MaxReadOnlyFileLen)
    \/ \E n \in ReadOnlyLineArgs : ReadFromCall(n)
    \/ \E n \in ReadOnlyLineArgs : ReadLineCall(n)
    \/ \E read_only, supplied \in BOOLEAN : ReopenCall(read_only, supplied)

SpecSeekReadOnly == Init /\ [][NextSeekReadOnly]_vars

----------------------------------------------------------------------------
(* Properties *)

\* the records a caller gets from the lines an iterator returned
LoadedRecords(lines) == [i \in 1..Len(lines) |-> JsonLoads(lines[i])]

\* C1: in every state reached by write_record, delete_records and
\* restore_records calls with any index sets, a new iterator returns exactly
\* current_index - |deleted_indexes| records before it raises StopIteration.
C1_IteratorYieldsLen ==
    Len(IterateAll(World)) = m.current_index - Cardinality(m.deleted_indexes)

\* C2: a next() call of an iterator that has not yet raised StopIteration
\* passes over the stored lines in the order of their indexes, one index at a
\* time: every line it skips has its index in deleted_indexes, the line it
\* returns a record from has the next index and that index is not in
\* deleted_indexes, and it raises StopIteration only once it has passed every
\* stored line.
C2_IterationSkipsDeleted ==
    [][(op'.name = "next" /\ ~it.stopped) =>
        LET first  == it.current_index
            last   == it'.current_index
            passed == SubSeq(StoredLines(cats'), first + 1, last)
        IN  /\ last <= Len(StoredLines(cats'))
            /\ \A j \in 1..Len(passed) : passed[j].idx = first + j - 1
            /\ IF op'.raised
               THEN /\ \A j \in first..(last - 1) : j \in m'.deleted_indexes
                    /\ last = m'.current_index
                    /\ last = Len(StoredLines(cats'))
               ELSE /\ last > first
                    /\ \A j \in first..(last - 2) : j \in m'.deleted_indexes
                    /\ op'.line = passed[Len(passed)]
                    /\ op'.line.idx \notin m'.deleted_indexes]_vars

\* C2 witness: next() has returned the record of index 2 after skipping the
\* deleted index 1
C2_Witness ==
    /\ op.name = "next"
    /\ ~op.raised
    /\ ~it.stopped
    /\ op.line.idx = 2
    /\ 1 \in m.deleted_indexes
    /\ Len(cats) >= 2

C4_SegmentRollover ==
    \A k \in 1..MaxIndex :
        Len(written) = m.max_len * k + 1 =>
            /\ Len(cats) = k + 1
            /\ Len(m.catalog_paths) = k + 1
            /\ \A i \in 0..k :
                /\ cats[i + 1].manifest[1].start_index = i * m.max_len
                /\ i < k => Len(cats[i + 1].data) = m.max_len

\* C5: a write_record call that raises on a non-finite float leaves
\* current_index, catalog_paths, the deleted set, manifest.json and every
\* catalog file and catalog manifest as they were.
C5_FailedWriteChangesNothing ==
    [][(op'.name = "write_record" /\ op'.raised) =>
        (mfile' = mfile /\ cats' = cats /\ m' = m)]_vars

\* C6: a Manifest made with inputs=[] and types=[] right after close() has
\* the inputs and types stored (those in use before), the same current_index,
\* deleted set and catalog list as before the close, and a new iterator over
\* it returns the same records as one over the object in use before.
C6_ReopenRoundTrip ==
    [][(/\ op.name = "close"
        /\ op'.name = "open"
        /\ op'.inputs = NoList
        /\ op'.types = NoList) =>
            /\ ~op'.raised
            /\ m'.inputs = mfile[1].list
            /\ m'.types = mfile[2].list
            /\ m'.inputs = m.inputs
            /\ m'.types = m.types
            /\ m'.current_index = m.current_index
            /\ m'.deleted_indexes = m.deleted_indexes
            /\ m'.catalog_paths = m.catalog_paths
            /\ IterateAll(World') = IterateAll(World)]_vars

\* C6 witness: a datastore opened with no schema whose earlier session
\* wrote across a catalog boundary, deleted a record and was closed
C6_Witness ==
    /\ op.name = "open"
    /\ op.inputs = NoList
    /\ op.types = NoList
    /\ ~op.raised
    /\ m.session_id.id >= 1
    /\ m.current_index >= 3
    /\ m.deleted_indexes # {}
    /\ Len(m.catalog_paths) >= 2
    /\ m.inputs = <<"angle">>

\* no two stored lines were written under the same value of current_index
DistinctIndexes ==
    LET lines == StoredLines(cats)
    IN  \A i, j \in 1..Len(lines) : lines[i].idx = lines[j].idx => i = j

\* C7: current_index never decreases; a write_record that returns adds
\* exactly 1 to it, every other call (a write_record that raises, delete,
\* restore, close, open) leaves it as it was; no two stored records have the
\* same logical index.
C7_IndexMonotone ==
    /\ []DistinctIndexes
    /\ [][/\ m'.current_index >= m.current_index
          /\ IF op'.name = "write_record" /\ ~op'.raised
             THEN m'.current_index = m.current_index + 1
             ELSE m'.current_index = m.current_index]_vars

\* C7 witness: a record written at the last index by a later session, after
\* a deletion
C7_Witness ==
    /\ op.name = "write_record"
    /\ ~op.raised
    /\ m.session_id.id >= 1
    /\ m.deleted_indexes # {}
    /\ m.current_index = MaxIndex

\* C8: opening the datastore with inputs and types both empty succeeds and
\* takes the stored schema; with both equal to the stored values it
\* succeeds; with a non-empty inputs or types that differs from the stored
\* value it raises; an open that raises leaves every file as it was.
C8_OpenSchema ==
    [][op'.name = "open" =>
        LET stored_inputs == mfile[1].list
            stored_types  == mfile[2].list
        IN  /\ (op'.inputs = NoList /\ op'.types = NoList) =>
                   /\ ~op'.raised
                   /\ m'.inputs = stored_inputs
                   /\ m'.types = stored_types
            /\ (op'.inputs = stored_inputs /\ op'.types = stored_types) =>
                   /\ ~op'.raised
                   /\ m'.inputs = stored_inputs
                   /\ m'.types = stored_types
            /\ (\/ (op'.inputs # NoList /\ op'.inputs # stored_inputs)
                \/ (op'.types # NoList /\ op'.types # stored_types)) =>
                   op'.raised
            /\ op'.raised => (mfile' = mfile /\ cats' = cats)]_vars

\* C8 witness: an open with the stored inputs and other types has raised on
\* a datastore that holds records
C8_Witness ==
    /\ op.name = "open"
    /\ op.raised
    /\ op.inputs = <<"angle">>
    /\ op.types = <<"int">>
    /\ m.current_index >= 1

\* C9: once next() has raised StopIteration, every later next() on the same
\* iterator raises StopIteration too, whatever was written, deleted or
\* restored in between.
C9_StopIsFinal ==
    [][(it.stopped /\ op'.name = "next") => op'.raised]_vars

\* C10: restore_records(S) right after delete_records(S), S a set of written
\* indexes none of which was deleted, gives back the deleted set, the length,
\* line 5 of manifest.json and the lines a new iterator returns records from
\* as they were before the delete.
C10_RestoreUndoesDelete ==
    (/\ op.name = "restore_records"
     /\ op.before.has
     /\ op.indexes \subseteq 0..(m.current_index - 1)
     /\ op.indexes \cap op.before.deleted = {}) =>
        Observed(World) = op.before

\* C10 witness: two written records, one in each catalog, restored right
\* after their delete while another record stays deleted
C10_Witness ==
    /\ op.name = "restore_records"
    /\ op.before.has
    /\ op.indexes = {0, 2}
    /\ m.current_index >= 3
    /\ op.before.deleted = {1}
    /\ Len(op.before.lines) = m.current_index - 1

\* C11: a delete_records or restore_records call changes nothing but the
\* deleted set of the object and the deleted_indexes entry of line 5 of
\* manifest.json: current_index, max_len, catalog_paths and every other field
\* of the object, lines 1 to 4 of manifest.json, the other entries of line 5
\* and every catalog file and catalog manifest are as they were.
C11_DeleteRestoreFrame ==
    [][(op'.name \in {"delete_records", "restore_records"}) =>
        /\ m' = [m EXCEPT !.deleted_indexes = m'.deleted_indexes]
        /\ cats' = cats
        /\ Len(mfile') = 5
        /\ Len(mfile) = 5
        /\ SubSeq(mfile', 1, 4) = SubSeq(mfile, 1, 4)
        /\ mfile'[5] = [mfile[5] EXCEPT
                            !.deleted_indexes = Sorted(m'.deleted_indexes)]]_vars

\* C11 witness: a delete_records call made by a later session on a datastore
\* of two catalogs has left two indexes deleted
C11_Witness ==
    /\ op.name = "delete_records"
    /\ Cardinality(m.deleted_indexes) >= 2
    /\ m.current_index >= 3
    /\ Len(cats) >= 2
    /\ m.session_id.id >= 1

\* C12: after every write_record, delete_records and restore_records call
\* len(manifest) returns current_index - |deleted_indexes|.
C12_LenAfterEveryCall ==
    (op.name \in {"write_record", "delete_records", "restore_records"}) =>
        /\ ~BuiltinLen(m).raised
        /\ BuiltinLen(m).value =
               m.current_index - Cardinality(m.deleted_indexes)

\* C13: in every state reached by write_record calls that return or raise,
\* delete_records, restore_records, close and Manifest() calls, those passing
\* another max_len included, no catalog file holds more than max_len lines.
C13_CatalogAtMostMaxLen ==
    \A i \in 1..Len(cats) : Len(cats[i].data) <= m.max_len

\* C13 witness: a Manifest() call that passed a max_len smaller than the
\* stored one has returned on a datastore one catalog of which holds as many
\* lines as the stored max_len, another catalog having been started
C13_Witness ==
    /\ op.name = "open"
    /\ ~op.raised
    /\ op.max_len < mfile[5].max_len
    /\ Len(cats) >= 2
    /\ \E i \in 1..Len(cats) : Len(cats[i].data) = mfile[5].max_len

\* C14: a list(manifest) made right after another one, with no write_record,
\* delete_records or restore_records call in between, returns the same
\* records in the same order, the first one having closed the manifest.
C14_IterationRepeatable ==
    (op.name = "list" /\ op.before.has) => op.lines = op.before.lines

\* C14 witness: the second of two list(manifest) calls in a row has returned
\* records of two catalogs, one record being deleted, on a closed manifest
C14_Witness ==
    /\ op.name = "list"
    /\ op.before.has
    /\ m.is_closed
    /\ Len(op.lines) >= 2
    /\ m.deleted_indexes \cap 0..(m.current_index - 1) # {}
    /\ Len(cats) >= 2

\* the lines that are neither deleted nor malformed, in order
RECURSIVE ReadableLines(_, _)
ReadableLines(lines, deleted) ==
    IF lines = <<>> THEN <<>>
    ELSE LET rest == ReadableLines(Tail(lines), deleted)
             l    == Head(lines)
         IN  IF l.idx \in deleted \/ JsonLoadsRaises(l) THEN rest
             ELSE <<l>> \o rest

\* C15: whatever lines of the catalogs hold malformed JSON, a new iterator
\* returns the records of exactly the other lines whose index (the value of
\* current_index they were written under) is not in deleted_indexes, in
\* order: a malformed line is passed over, counts as one index and ends
\* nothing.
C15_MalformedLineSkipped ==
    IterateAll(World) = ReadableLines(StoredLines(cats), m.deleted_indexes)

\* C16: _updated_session tells whether a write_record call has returned
\* since the Manifest was made (a Manifest() call that returns starts with
\* it unset, a write_record that returns sets it, nothing else changes it);
\* a close() of a session that has not written leaves lines 3 and 4 of
\* manifest.json as they were; after a close() of a session that has
\* written, the stored sessions.last_id and last_full_id are those of this
\* session and all_full_ids holds its full id.
C16_SessionRecordedIfWrote ==
    [][/\ IF op'.name = "write_record" /\ ~op'.raised
          THEN m'.updated_session
          ELSE IF op'.name = "open" /\ ~op'.raised
          THEN ~m'.updated_session
          ELSE m'.updated_session = m.updated_session
       /\ op'.name = "close" =>
            IF m.updated_session
            THEN LET sessions == mfile'[4].sessions
                 IN  /\ sessions.has
                     /\ sessions.last_id = m.session_id.id
                     /\ sessions.last_full_id = m.session_id.full_id
                     /\ m.session_id.full_id \in Range(sessions.all_full_ids)
            ELSE /\ mfile'[3] = mfile[3]
                 /\ mfile'[4] = mfile[4]]_vars

\* C16 witness: the close() of the second session that wrote
C16_Witness ==
    /\ op.name = "close"
    /\ m.updated_session
    /\ m.session_id.id = 1
    /\ mfile[4].sessions.all_full_ids = <<FullId(0), FullId(1)>>

\* the counter a stored full id was made from
CounterOf(full_id) ==
    CHOOSE n \in 0..(MaxSessionLog + 1) : FullId(n) = full_id

\* the stored session history starts with counter 0, goes on by steps of at
\* most 1 and ends with last_id
ConsecutiveSessions ==
    LET sessions == mfile[4].sessions
        all      == sessions.all_full_ids
    IN  sessions.has =>
            /\ Len(all) >= 1
            /\ \A i \in 1..Len(all) :
                   \E n \in 0..(MaxSessionLog + 1) : FullId(n) = all[i]
            /\ CounterOf(all[1]) = 0
            /\ \A i \in 2..Len(all) :
                   CounterOf(all[i]) \in
                       {CounterOf(all[i - 1]), CounterOf(all[i - 1]) + 1}
            /\ CounterOf(all[Len(all)]) = sessions.last_id
            /\ sessions.last_full_id = all[Len(all)]

\* C17: a Manifest() call that returns gives the session the counter 0 when
\* manifest.json stores no session and the stored last_id + 1 otherwise; the
\* stored history of the sessions that wrote and closed has the counters
\* 0, 1, 2, ... in order; the session made right after a close() has the
\* counter of the closed one plus 1 when that one wrote and the very same
\* counter when it did not.
C17_SessionCounter ==
    /\ []ConsecutiveSessions
    /\ [][(op'.name = "open" /\ ~op'.raised) =>
            /\ m'.session_id.id =
                   IF mfile[4].sessions.has
                   THEN mfile[4].sessions.last_id + 1 ELSE 0
            /\ op.name = "close" =>
                   m'.session_id.id =
                       IF m.updated_session
                       THEN m.session_id.id + 1 ELSE m.session_id.id]_vars

\* C17 witness: the third session that is to write has been given the
\* counter 2, the sessions 0 and 1 being stored
C17_Witness ==
    /\ op.name = "open"
    /\ ~op.raised
    /\ m.session_id.id = 2
    /\ mfile[4].sessions.all_full_ids = <<FullId(0), FullId(1)>>

\* C18: no close() call raises.
C18_CloseNeverRaises ==
    [][op'.name = "close" => ~op'.raised]_vars

\* manifest.json holds five lines, the fifth with every entry of the catalog
\* metadata
ManifestComplete ==
    /\ exists
    /\ Len(mfile) = 5
    /\ DOMAIN mfile[5] = {"paths", "current_index", "max_len", "deleted_indexes"}

\* C19: wherever a process stops inside write_record, delete_records,
\* restore_records or close, manifest.json holds five lines with a complete
\* line 5, and the Manifest() call of the next process returns.
C19_ManifestSurvivesCrash ==
    /\ []ManifestComplete
    /\ [][(op.name = "crash" /\ op'.name = "open") => ~op'.raised]_vars

\* every stored line is at the place of the index it was written under
IndexesAligned ==
    LET lines == StoredLines(cats)
    IN  \A i \in 1..Len(lines) : lines[i].idx = i - 1

\* C20: when a process has stopped inside write_record and a Manifest() call
\* has returned after it, the catalogs hold current_index lines in all and
\* every catalog manifest lists one length per line of its catalog; and the
\* lines written from then on are found by an iterator under the index they
\* were written with.
C20_WriteCrashConsistent ==
    /\ [](HasManifest => IndexesAligned)
    /\ [][(/\ op.name = "crash"
           /\ op.inputs = <<"write_record">>
           /\ op'.name = "open"
           /\ ~op'.raised) =>
            /\ Len(StoredLines(cats')) = m'.current_index
            /\ \A i \in 1..Len(cats') :
                   /\ Len(cats'[i].manifest) = 1
                   /\ Len(cats'[i].manifest[1].line_lengths) =
                          Len(cats'[i].data)]_vars

\* line 5 of manifest.json is the catalog metadata of the object in use
Line5Current ==
    /\ Len(mfile) = 5
    /\ mfile[5] = CatalogMetadataLine(m)

\* C21: after every call (Manifest(), write_record, delete_records,
\* restore_records, close) manifest.json holds exactly five lines and line 5
\* holds the catalog_paths, current_index, max_len and sorted deleted_indexes
\* of the object in use; a Manifest() call that returns, made with or without
\* a close() before it, gives an object with the same four values and the
\* same records.
C21_Line5AlwaysCurrent ==
    /\ []Line5Current
    /\ [][(op'.name = "open" /\ ~op'.raised) =>
            /\ m'.catalog_paths = m.catalog_paths
            /\ m'.current_index = m.current_index
            /\ m'.max_len = m.max_len
            /\ m'.deleted_indexes = m.deleted_indexes
            /\ IterateAll(World') = IterateAll(World)]_vars

\* C21 witness: a datastore reopened while no session that wrote was ever
\* closed, holding records in two catalogs and a deleted index
C21_Witness ==
    /\ op.name = "open"
    /\ ~op.raised
    /\ m.manifest_metadata.sessions.all_full_ids = <<>>
    /\ m.current_index >= 3
    /\ Len(m.catalog_paths) >= 2
    /\ m.deleted_indexes # {}
    /\ Line5Current

\* C25: in every state the i-th entry of catalog_paths (counted from 0) is
\* the name with the number i, f'catalog_{i}.catalog': the names are distinct
\* and numbered in the order of creation without gaps.
C25_CatalogNamesNumbered ==
    \A i \in 1..Len(m.catalog_paths) : m.catalog_paths[i] = i - 1

\* C25 witness: three catalogs, the second one added by a write_record that
\* raised and left empty
C25_Witness ==
    /\ Len(m.catalog_paths) = 3
    /\ Len(cats) = 3
    /\ cats[2].data = <<>>
    /\ mfile[5].paths = m.catalog_paths

\* the Catalog objects made by _add_catalog and write_record hold no file open
NoManifestCatalogHandles ==
    \A h \in handles :
        h.owner \notin {"Manifest._add_catalog", "Manifest.write_record"}

\* C22: when write_record has returned or raised, the catalog file and the
\* catalog manifest of every Catalog object it made (the one of _add_catalog
\* and the one written to) are closed: between two calls the Manifest holds
\* no catalog file open.
C22_WriteRecordClosesCatalogs == NoManifestCatalogHandles

\* C22 witness: a write_record that raised after it had added a catalog
C22_Witness ==
    /\ op.name = "write_record"
    /\ op.raised
    /\ Len(m.catalog_paths) >= 2
    /\ cats[Len(m.catalog_paths)].data = <<>>
    /\ NoManifestCatalogHandles

\* the files the iterator holds open through its current_catalog
IteratorHandles == {h \in handles : h.owner = "ManifestIterator"}

\* the iterator holds the files of one catalog at most
OneCatalogOpen == \A g, h \in IteratorHandles : g.n = h.n

\* C23: a ManifestIterator holds at most one catalog open at any time (the
\* catalog it read is closed before the next one is opened), and once it has
\* raised StopIteration it holds no catalog file open.
C23_IteratorHandles ==
    /\ OneCatalogOpen
    /\ it.stopped => IteratorHandles = {}

\* C24: between calls the Manifest object holds no file open on
\* manifest.json, whether the datastore was newly created or opened from an
\* existing directory.
C24_NoManifestHandle == ~m.seekeable_open

\* sum(line_lengths[0..i-1])
RECURSIVE SumOfFirst(_, _)
SumOfFirst(lengths, i) ==
    IF i = 0 THEN 0 ELSE SumOfFirst(lengths, i - 1) + lengths[i]

\* C26: after any sequence of writeline, truncate_until_end and update_line
\* calls (and of reads and reopenings between them) cumulative_lengths has as
\* many entries as line_lengths, its entry i is the sum of the line lengths
\* up to and with line i, and total_length is its last entry, or 0 when
\* there is no line.
C26_IndexSums ==
    /\ Len(sk.cumulative_lengths) = Len(sk.line_lengths)
    /\ \A i \in 1..Len(sk.line_lengths) :
           sk.cumulative_lengths[i] = SumOfFirst(sk.line_lengths, i)
    /\ sk.total_length = SumOfFirst(sk.line_lengths, Len(sk.line_lengths))

\* C26 witness: an update_line of line 2 that has returned on a file of at
\* least three lines of different lengths
C26_Witness ==
    /\ skop.name = "update_line"
    /\ skop.n = 2
    /\ ~skop.raised
    /\ Len(sk.line_lengths) >= 3
    /\ sk.line_lengths[1] # sk.line_lengths[3]
    /\ sk.total_length = Len(sk.file)

\* the number of lines of the file: its newlines and, when the last byte is
\* no newline, the line that is not ended
FileLineCount(file) ==
    Cardinality({i \in 1..Len(file) : file[i] = NEWLINE})
        + (IF file # <<>> /\ file[Len(file)] # NEWLINE THEN 1 ELSE 0)

\* C27: after every writeline, truncate_until_end and update_line that has
\* returned, on a Seekable whose index was made by reading the file or given
\* as line_lengths, the file is total_length bytes long and holds as many
\* lines as line_lengths has entries.
C27_FileMatchesIndex ==
    (skop.name \in {"writeline", "truncate_until_end", "update_line"}
        /\ ~skop.raised) =>
            /\ Len(sk.file) = sk.total_length
            /\ FileLineCount(sk.file) = Len(sk.line_lengths)

\* the lines of the file as str, each without its newline
RECURSIVE FileLines(_)
FileLines(file) ==
    IF file = <<>> THEN <<>>
    ELSE LET nl  == {i \in 1..Len(file) : file[i] = NEWLINE}
             end == IF nl = {} THEN Len(file) + 1
                    ELSE CHOOSE i \in nl : \A j \in nl : i <= j
         IN  <<Decode(SubSeq(file, 1, end - 1)).chars>>
                 \o FileLines(SubSeq(file, end + 1, Len(file)))

\* C28: on a Seekable of L lines, seek_line_start(n) followed by readline()
\* returns line n without its newline when 1 <= n <= L, and the empty str
\* when n > L.
C28_ReadLineAt ==
    (skop.name = "readline" /\ ~skop.raised) =>
        LET lines == FileLines(sk.file)
        IN  /\ (1 <= skop.n /\ skop.n <= Len(lines)) =>
                   skop.result = <<lines[skop.n]>>
            /\ skop.n > Len(lines) => skop.result = << <<>> >>

\* how many times line is among lines
Count(lines, line) == Cardinality({i \in 1..Len(lines) : lines[i] = line})

\* C29: on a Seekable of L lines, an update_line(n, c) that returns leaves,
\* when 1 <= n <= L, exactly L lines of which line n is c and every other
\* line is what it was, at its place; when n is outside 1..L every line
\* that was there is there as many times as before, c apart.
C29_UpdateLine ==
    [][(skop'.name = "update_line" /\ ~skop'.raised) =>
        LET old == FileLines(sk.file)
            new == FileLines(sk'.file)
            n   == skop'.n
            c   == RStrip(skop'.contents)
        IN  IF 1 <= n /\ n <= Len(old)
            THEN /\ Len(new) = Len(old)
                 /\ new[n] = c
                 /\ \A i \in 1..Len(old) : i # n => new[i] = old[i]
            ELSE \A i \in 1..Len(old) :
                     Count(new, old[i]) =
                         Count(old, old[i]) + (IF c = old[i] THEN 1 ELSE 0)]_vars

\* C30: on a Seekable of L lines, some of which may be empty, read_from(n)
\* with 1 <= n <= L returns the lines n..L in their order and leaves the
\* position of the file where it was.
C30_ReadFrom ==
    [][(skop'.name = "read_from" /\ ~skop'.raised) =>
        LET lines == FileLines(sk.file)
            n     == skop'.n
        IN  (1 <= n /\ n <= Len(lines)) =>
                /\ skop'.result = SubSeq(lines, n, Len(lines))
                /\ sk'.pos = sk.pos]_vars

\* the file holds complete lines, one for each entry of the index
HoldsLines(s) ==
    /\ FileLineCount(s.file) = Len(s.line_lengths)
    /\ s.file # <<>> => s.file[Len(s.file)] = NEWLINE

\* the bytes of the first n lines of the file, each with its newline
RECURSIVE FirstLines(_, _)
FirstLines(file, n) ==
    IF n <= 0 \/ file = <<>> THEN <<>>
    ELSE LET line == Encode(FirstLine(Decode(file).chars))
         IN  line \o FirstLines(SubSeq(file, Len(line) + 1, Len(file)), n - 1)

\* C31: on a writable Seekable that holds L lines, truncate_until_end(n) with
\* 0 <= n <= L leaves the first n entries of the index and the first n lines
\* of the file as they were and nothing behind them (nothing at all when n
\* is 0), and a writeline that follows puts its line right behind them.
C31_TruncateUntilEnd ==
    [][/\ (skop'.name = "truncate_until_end" /\ HoldsLines(sk)
              /\ sk.method = "a+" /\ skop'.n <= Len(sk.line_lengths)) =>
               /\ sk'.line_lengths = SubSeq(sk.line_lengths, 1, skop'.n)
               /\ sk'.cumulative_lengths =
                      SubSeq(sk.cumulative_lengths, 1, skop'.n)
               /\ sk'.file = FirstLines(sk.file, skop'.n)
               /\ skop'.n = 0 => (sk'.file = <<>> /\ sk'.line_lengths = <<>>)
       /\ (skop.name = "truncate_until_end" /\ HoldsLines(sk)
              /\ skop'.name = "writeline" /\ ~skop'.raised) =>
               /\ sk'.file = sk.file \o Encode(RStrip(skop'.contents))
                                     \o <<NEWLINE>>
               /\ Len(sk'.line_lengths) = Len(sk.line_lengths) + 1]_vars

\* C32: writeline on a Seekable opened read-only raises, and line_lengths,
\* cumulative_lengths, total_length and the file are what they were before
\* the call.
C32_ReadOnlyWriteline ==
    [][(sk.method = "r" /\ skop'.name = "writeline") =>
           /\ skop'.raised
           /\ sk'.line_lengths = sk.line_lengths
           /\ sk'.cumulative_lengths = sk.cumulative_lengths
           /\ sk'.total_length = sk.total_length
           /\ sk'.file = sk.file]_vars

\* C32 witness: a writeline of a line has raised on a read-only Seekable of
\* two lines or more
C32_Witness ==
    /\ skop.name = "writeline"
    /\ skop.raised
    /\ skop.contents # <<>>
    /\ sk.method = "r"
    /\ Len(sk.line_lengths) >= 2

\* the catalog manifest holds one line, and its line_lengths are the lengths
\* of the lines of the catalog, one for each
ManifestMatchesCatalog(cat) ==
    /\ Len(cat.manifest) = 1
    /\ cat.manifest[1].line_lengths = ScanLineLengths(cat.data)

\* C33: after every Catalog.write_record the catalog manifest holds exactly
\* one line, and the line_lengths stored in it have one entry for each line
\* of the catalog, the length of that line; it is so for the catalog written
\* and for the catalogs written before it.
C33_CatalogManifestMatches ==
    op.name = "write_record" =>
        \A n \in 1..Len(cats) : ManifestMatchesCatalog(cats[n])

\* C33 witness: a write_record has returned, the first catalog holds two
\* lines of different lengths and a second catalog holds a line
C33_Witness ==
    /\ op.name = "write_record"
    /\ ~op.raised
    /\ Len(cats) >= 2
    /\ Len(cats[1].data) = 2
    /\ cats[1].manifest[1].line_lengths[1] # cats[1].manifest[1].line_lengths[2]
    /\ Len(cats[2].data) >= 1

\* C34: every next() that is entered is left, and an iterator on which
\* next() is called again and again raises StopIteration after finitely many
\* calls, whatever indexes are marked deleted and however many lines in a
\* row are deleted or do not parse.
C34_IterationEnds ==
    /\ it.running ~> ~it.running
    /\ it.alive ~> it.stopped

\* C34 witness: an iterator has raised StopIteration on two catalogs of four
\* lines, of which two in a row do not parse and the others are deleted
C34_Witness ==
    /\ it.stopped
    /\ ~it.running
    /\ Len(cats) >= 2
    /\ Len(StoredLines(cats)) = 4
    /\ \E j \in 1..3 : /\ JsonLoadsRaises(StoredLines(cats)[j])
                       /\ JsonLoadsRaises(StoredLines(cats)[j + 1])
    /\ \A j \in 1..4 : \/ JsonLoadsRaises(StoredLines(cats)[j])
                       \/ (j - 1) \in m.deleted_indexes

\* C35: the full id of a session is at most once in the stored
\* sessions.all_full_ids, however many times close() has run in the session.
C35_SessionStoredOnce ==
    LET all == mfile[4].sessions.all_full_ids
    IN  \A i, j \in 1..Len(all) : all[i] = all[j] => i = j

\* C36: in every state the deleted set holds only indexes of records that
\* were written, 0 <= i < current_index, and __len__ is not negative.
C36_DeletedWereWritten ==
    /\ \A i \in m.deleted_indexes : 0 <= i /\ i < m.current_index
    /\ ManifestLen(m) >= 0

\* C38: a Manifest() call on an existing datastore takes the max_len stored
\* in line 5 of manifest.json, whatever max_len it is called with, and the
\* stored max_len is the one the datastore was created with in every state.
C38_MaxLenFixed ==
    /\ [](m.max_len = MaxLenArg /\ mfile[5].max_len = MaxLenArg)
    /\ [][(op'.name = "open" /\ ~op'.raised) =>
              /\ m'.max_len = mfile[5].max_len
              /\ mfile'[5].max_len = mfile[5].max_len]_vars

\* C38 witness: a datastore created with max_len 2 has been opened with
\* max_len 1 after it had rolled over to its second catalog
C38_Witness ==
    /\ op.name = "open"
    /\ ~op.raised
    /\ op.max_len = 1
    /\ m.max_len = 2
    /\ m.current_index = 3
    /\ Len(m.catalog_paths) = 2

\* C39: the start_index and created_at stored in a catalog manifest are what
\* they were when the manifest was written first, whatever start_index the
\* catalog is opened with afterwards; nothing but line_lengths changes in the
\* stored line.
C39_StartIndexFixed ==
    [][\A n \in 1..Len(cats) :
           /\ Len(cats') >= n
           /\ Len(cats'[n].manifest) = 1
           /\ cats'[n].manifest[1].start_index = cats[n].manifest[1].start_index
           /\ cats'[n].manifest[1].created_at = cats[n].manifest[1].created_at
           /\ cats'[n].manifest[1].path = cats[n].manifest[1].path]_vars

\* C39 witness: write_record has opened the second catalog, made at index 2,
\* with start_index 3 and written its second line
C39_Witness ==
    /\ op.name = "write_record"
    /\ ~op.raised
    /\ m.current_index = 4
    /\ Len(cats) = 2
    /\ Len(cats[2].data) = 2
    /\ cats[2].manifest[1].start_index = 2
    /\ cats[1].manifest[1].start_index = 0

\* C37: on a Manifest opened with read_only=True every write_record,
\* delete_records and restore_records raises and no call changes a file, and
\* after any calls len(datastore) and the records a new iterator returns are
\* what they were right after the open.
C37_ReadOnlyFrame ==
    /\ [][m.read_only =>
              /\ <<exists, mfile, cats>>' = <<exists, mfile, cats>>
              /\ op'.name \in {"write_record", "delete_records",
                               "restore_records"} => op'.raised]_vars
    /\ [](m.read_only =>
              /\ ManifestLen(m) = op.before.len
              /\ IterateAll(World) = op.before.lines)

====
